---- MODULE Spec2Model ----
(***************************************************************************)
(* Background processing core of CaseBuddy-DiscoveryLens.                  *)
(*                                                                         *)
(* Part 1: the job queue worker (src/lib/worker.ts) running against the    *)
(* shared job_queue / documents tables.  Every worker is an event loop:   *)
(* a step of the model is one run-to-completion turn of that loop, i.e.    *)
(* the code from the arrival of a store response (or a timer firing, or    *)
(* an API call) up to the next await.  A store request is executed by the  *)
(* store and answered in the same step; the select and the update of       *)
(* acquireJob are two requests and therefore two steps.                    *)
(***************************************************************************)
EXTENDS Integers, FiniteSets, Sequences, Bags, TLC

(***************************************************************************)
(* Bounds of the model.                                                    *)
(***************************************************************************)
NumWorkers == 2        \* JobWorker instances polling the same store
NumJobs == 2           \* rows ever inserted into job_queue, one worker polling
PoolJobs == 1          \* the same, where NumWorkers workers poll
SoloJobs == 1          \* the same, where one worker is started and stopped at will
MaxLoops == 2          \* poll() chains alive at once in one worker
MaxExecs == 2          \* processJob() calls in flight at once in one worker
MaxNow == 60000        \* the last instant, in ms, the clock of the rate limiter reaches
MaxConsumes == 2       \* consume() calls, over all resource keys
MaxCalls == 1          \* waitForTokens() and withRateLimit() calls in flight at once
MaxConcurrent == 2     \* withRateLimit() calls in flight together
MaxStarted == 2        \* waitForTokens() and withRateLimit() calls made
StepMs == 30000        \* a passage of time shorter than a minute, in ms
ShortWaitMs == 3       \* a maxWaitMs that ends within a few timer ticks
LongWaitMs == 12001    \* a maxWaitMs longer than two sleeps of waitForTokens
HugeEstimate == 600000 \* an estimate above the default tokensPerMinute
maxSize == 2           \* CacheConfig.maxSize of the cache
defaultTtlMs == 30000  \* CacheConfig.defaultTtlMs of the cache
ShortTtlMs == 1        \* a ttlMs that a caller of set() passes
MaxOps == 4            \* calls of methods of the cache
MaxText == 2           \* characters of a string part of a cache key
MaxParts == 2          \* parts of a cache key
MaxMade == 2           \* createKey() calls
SmallInput == 11       \* bytes of a short input buffer
SmallLimit == 16       \* a sizeLimit that a caller of transcodeToMonoWav passes
ChunkBytes == 9        \* bytes of a short chunk of the subprocess's output
MaxChunks == 3         \* stdout data events of one subprocess
MaxRequests == 2       \* analyze and transcribe requests made
MaxAttempts == 4       \* generator calls of those requests
CACHE_TTL_MS == 30000  \* GEMINI_CACHE_TTL_MS
MaxReads == 4          \* reads of one response body

(***************************************************************************)
(* Program constants.                                                      *)
(***************************************************************************)
maxConcurrentJobs == 1

Workers == 1..NumWorkers
JobIds == 1..NumJobs
NoDoc == 0
NoError == "none"
SizeExceeded == "exceeds maximum size"
Boom == "boom"
UpdateFailed == "Failed to update document"
NoDocumentId == "No document_id provided"
Succeeded == 0 - 1

VARIABLES
    jobs,          \* job_queue table: job id -> row
    documents,     \* documents table: document id -> [status, error_message]
    clock,         \* the store's now(), for created_at
    isRunning,     \* JobWorker.isRunning
    currentJob,    \* JobWorker.currentJob (NoJob for null)
    pollTimeout,   \* JobWorker.pollTimeout: "null", "live" (a pending timer) or "stale" (a fired one)
    timers,        \* pending setTimeout(() => this.poll()) callbacks of the worker
    polls,         \* poll() calls suspended in `await this.acquireJob()`
    execs,         \* processJob() calls not yet settled
    graceful,      \* the last stopGracefully() since start(): "none", "waiting", "resolved"
    redundantStart,\* history: start() was called while the worker was running
    thrown,        \* history: job id -> executions so far, if each of them threw; else Succeeded
    storeErrors,   \* history: the store has answered a request of a worker with an error
    now,           \* Date.now() of the process that holds the rate limiter, in ms
    buckets,       \* RateLimiter.buckets: resource key -> BucketState
    stats,         \* RateLimiter.stats: resource key -> counters
    calls,         \* waitForTokens() and withRateLimit() calls not yet settled
    done,          \* history: the call that returned last, and what it returned
    started,       \* history: waitForTokens() and withRateLimit() calls made so far
    cache,         \* LRUCache.cache: the entries in the order of the Map, oldest first
    cacheStats,    \* LRUCache.stats
    persistenceAdapter, \* LRUCache.persistenceAdapter
    got,           \* history: the last get() or has() that returned, and its result
    written,       \* history: key -> the value of the last set() of the key
    invalidated,   \* history: the keys deleted or cleared since their last set()
    ops,           \* history: the number of calls of methods of the cache so far
    adapterStore,  \* the rows the persistence adapter holds: key -> [value, expiresAt], NoRow for none
    pendingPersistenceWrites, \* LRUCache.pendingPersistenceWrites: key -> write, 0 for none
    writes,        \* the promises adapter.set() has returned, in the order of the calls
    chained,       \* then-callbacks of set() on pending writes, in the order of registration
    removals,      \* adapter.delete() and adapter.clear() calls not yet settled
    reads,         \* get() calls suspended in `await this.persistenceAdapter.get(key)`, each
                   \* with the history `since`: it was called after a delete or clear of
                   \* its key, and the key has not been set, deleted or cleared since
    failed,        \* history: the adapter has rejected a call
    unhandled,     \* history: a promise was rejected that has no rejection handler
    made,          \* history: the createKey() calls so far, as [parts, key]
    transcode,     \* a transcodeToMonoWav() call: its arguments, its subprocess, its promise
    download,      \* a downloadMediaBuffer() call: its arguments, its response, its promise
    execution,     \* a processJob() call seen from inside: its job, its awaits, its callbacks
    inference      \* the analyze or transcribe request in progress, and the requests so far

storeVars == <<jobs, documents, clock>>
workerVars == <<isRunning, currentJob, pollTimeout, timers, polls, execs, graceful>>
historyVars == <<redundantStart, thrown, storeErrors>>
limiterVars == <<now, buckets, stats, calls, done, started>>
cacheVars == <<cache, cacheStats, persistenceAdapter, got, written, invalidated, ops>>
persistVars == <<adapterStore, pendingPersistenceWrites, writes, chained, removals, reads,
                 failed, unhandled>>
mediaVars == <<made, transcode, download>>
flowVars == <<execution, inference>>
serviceVars == <<limiterVars, cacheVars, persistVars, mediaVars, flowVars>>
vars == <<jobs, documents, clock, isRunning, currentJob, pollTimeout, timers, polls,
          execs, graceful, redundantStart, thrown, storeErrors,
          now, buckets, stats, calls, done, started,
          cache, cacheStats, persistenceAdapter, got, written, invalidated, ops,
          adapterStore, pendingPersistenceWrites, writes, chained, removals, reads,
          failed, unhandled, made, transcode, download, execution, inference>>

NoJob == [id |-> 0, attempts |-> 0, max_attempts |-> 0, document_id |-> NoDoc,
          job_type |-> "none"]

\* The row acquireJob hands to processJob: the fields of the selected row that the
\* worker reads afterwards.
Snapshot(j) ==
    [id |-> j, attempts |-> jobs[j].attempts, max_attempts |-> jobs[j].max_attempts,
     document_id |-> jobs[j].document_id, job_type |-> jobs[j].job_type]

Created == DOMAIN jobs

Pending(js) == {j \in DOMAIN js : js[j].status = "pending"}

\* ORDER BY priority DESC, created_at ASC: k comes strictly before j
Before(js, k, j) ==
    \/ js[k].priority > js[j].priority
    \/ js[k].priority = js[j].priority /\ js[k].created_at < js[j].created_at

\* a select that returns any pending row, whatever its rank
AnyPending(js) == Pending(js)

\* The rows the select of acquireJob may return, lines 112-118: a pending row with no
\* pending row ordered before it (rows equal in priority and created_at come back in
\* an order the store chooses).
SelectTop(js) == {j \in Pending(js) : \A k \in Pending(js) : ~Before(js, k, j)}

Loops(w) == timers[w] + BagCardinality(polls[w])

(***************************************************************************)
(* The rate limiter (src/lib/rateLimiter.ts): its numbers and its          *)
(* configuration.                                                          *)
(*                                                                         *)
(* The token counts of a bucket are JavaScript numbers.  The model keeps   *)
(* them as exact fractions: requestTokens in units of 1/RequestScale of a  *)
(* request and tokenTokens in units of 1/TokenScale of a token, chosen so  *)
(* that the refill of one millisecond is a whole number of units for       *)
(* every limit of DEFAULT_CONFIG.  The rounding of IEEE doubles is left    *)
(* out.  NaN stands for both NaN and undefined: no comparison with it      *)
(* is true and all arithmetic on it gives NaN.                             *)
(***************************************************************************)
NaN == 0 - 1
RequestScale == 12000
TokenScale == 3
MsPerMinute == 60000
MaxSleepMs == 5000
DefaultEstimatedTokens == 1000
DefaultMaxWaitMs == 60000
WaitRecordedAboveMs == 100
TimerMinMs == 1

FlashModel == "gemini-2.0-flash-001"
ProModel == "gemini-2.0-pro-exp-02-05"
ThinkingModel == "gemini-2.0-flash-thinking-exp-1219"

\* DEFAULT_CONFIG.models, lines 36-40
ConfigModels ==
    [m \in {ProModel, FlashModel, ThinkingModel} |->
        IF m = ProModel
        THEN [requestsPerMinute |-> 10, tokensPerMinute |-> 1000000]
        ELSE [requestsPerMinute |-> 15, tokensPerMinute |-> 2000000]]

\* DEFAULT_CONFIG.defaultLimits, line 41
DefaultLimits == [requestsPerMinute |-> 10, tokensPerMinute |-> 500000]

\* A property name that every object literal inherits from Object.prototype:
\* config.models[name] is then the inherited member, which is truthy and has no
\* requestsPerMinute or tokensPerMinute.
InheritedNames == {"constructor"}

\* getLimits, lines 78-80: this.config.models[model] || this.config.defaultLimits
getLimits(model) ==
    IF model \in DOMAIN ConfigModels THEN ConfigModels[model]
    ELSE IF model \in InheritedNames
         THEN [requestsPerMinute |-> NaN, tokensPerMinute |-> NaN]
         ELSE DefaultLimits

IsNaN(a) == a = NaN
Plus(a, b) == IF IsNaN(a) \/ IsNaN(b) THEN NaN ELSE a + b
Minus(a, b) == IF IsNaN(a) \/ IsNaN(b) THEN NaN ELSE a - b
Times(a, b) == IF IsNaN(a) \/ IsNaN(b) THEN NaN ELSE a * b
MathMin(a, b) == IF IsNaN(a) \/ IsNaN(b) THEN NaN ELSE IF a <= b THEN a ELSE b
MathMax(a, b) == IF IsNaN(a) \/ IsNaN(b) THEN NaN ELSE IF a >= b THEN a ELSE b
\* a >= b on numbers
AtLeast(a, b) == ~IsNaN(a) /\ ~IsNaN(b) /\ a >= b
\* Math.ceil(n / d) and Math.floor(n / d) for n >= 0, d > 0
CeilDiv(n, d) == (n + d - 1) \div d
FloorDiv(n, d) == n \div d

\* a count of requests or tokens in the units of its budget
Requests(n) == Times(n, RequestScale)
Tokens(n) == Times(n, TokenScale)
\* what a budget of `capacity` units gains in one millisecond:
\* capacity * (1 / 60000), lines 100-110
PerMs(capacity) == IF IsNaN(capacity) THEN NaN ELSE capacity \div MsPerMinute

RequestCapacity(model) == Requests(getLimits(model).requestsPerMinute)
TokenCapacity(model) == Tokens(getLimits(model).tokensPerMinute)

\* the bucket that initializeBuckets and ensureBucket create, lines 69-73 and 85-89
FullBucket(model, t) ==
    [requestTokens |-> RequestCapacity(model),
     tokenTokens |-> TokenCapacity(model),
     lastRefill |-> t]

NoStats == [requests |-> 0, tokens |-> 0, waits |-> 0, waitTimeMs |-> 0]

NoCall == [call |-> [kind |-> "none"], result |-> "none", at |-> 0, operation |-> "none"]

(***************************************************************************)
(* The result cache (src/lib/cache.ts): an LRUCache built with maxSize     *)
(* and defaultTtlMs as below and no persistence adapter, as every cache    *)
(* of the repository is.                                                   *)
(***************************************************************************)
Null == "null"
Undefined == 0 - 1
CacheKeys == {"", "key1", "key2"}
CacheValues == {"value1", "value2"}
Ttls == {Undefined, ShortTtlMs}

\* no transcodeToMonoWav() call has been made
NoTranscode ==
    [phase |-> "idle", inputBytes |-> 0, mimeType |-> <<>>, sizeLimit |-> 0,
     spawned |-> FALSE, settled |-> "none", audioBytes |-> 0, audioMimeType |-> <<>>,
     fromInput |-> FALSE, error |-> "none", stdoutSize |-> 0, chunks |-> 0,
     killed |-> FALSE,
     errored |-> FALSE, closed |-> FALSE, uncaught |-> FALSE]

\* no analyze or transcribe request yet
NoInference ==
    [pc |-> "idle", kind |-> "none", key |-> "none", model |-> "none",
     estimate |-> 0, invoked |-> <<>>, failures |-> 0, result |-> "none",
     fromCache |-> FALSE, error |-> "none", settled |-> "none", requests |-> 0]

\* no processJob() call yet
NoExecution ==
    [pc |-> "idle", job_type |-> "none", linked |-> FALSE, max_attempts |-> 0,
     document |-> "none", row |-> "processing", rowAttempts |-> 0,
     documentStatus |-> "processing", documentWritten |-> FALSE,
     markedComplete |-> FALSE, completeCalls |-> 0, errorCalls |-> 0,
     callbackThrew |-> FALSE, err |-> "none", settled |-> "none"]

\* no downloadMediaBuffer() call yet
NoDownload ==
    [phase |-> "idle", mediaUrl |-> <<>>, sizeLimit |-> 0, requested |-> FALSE,
     settled |-> "none", error |-> "none", downloaded |-> 0, kept |-> 0,
     readCalls |-> 0, bufferBytes |-> 0]

\* a row of the persistence adapter, and the absence of a row
Row(value, expiresAt) == [value |-> value, expiresAt |-> expiresAt]
NoRow == Row(Null, 0)
NoRows == [k \in CacheKeys |-> NoRow]

Init ==
    /\ jobs = <<>>
    /\ documents = [d \in JobIds |-> [status |-> "processing"]]
    /\ clock = 0
    /\ isRunning = [w \in Workers |-> FALSE]
    /\ currentJob = [w \in Workers |-> NoJob]
    /\ pollTimeout = [w \in Workers |-> "null"]
    /\ timers = [w \in Workers |-> 0]
    /\ polls = [w \in Workers |-> EmptyBag]
    /\ execs = [w \in Workers |-> EmptyBag]
    /\ graceful = [w \in Workers |-> "none"]
    /\ redundantStart = [w \in Workers |-> FALSE]
    /\ thrown = [j \in JobIds |-> 0]
    /\ storeErrors = FALSE
    /\ now = 0
    /\ buckets = [m \in DOMAIN ConfigModels |-> FullBucket(m, 0)]
    /\ stats = [m \in DOMAIN ConfigModels |-> NoStats]
    /\ calls = EmptyBag
    /\ done = NoCall
    /\ started = 0
    /\ cache = <<>>
    /\ cacheStats = [hits |-> 0, misses |-> 0, evictions |-> 0]
    /\ persistenceAdapter = Null
    /\ got = [op |-> "none"]
    /\ written = [k \in CacheKeys |-> Null]
    /\ invalidated = {}
    /\ ops = 0
    /\ adapterStore = NoRows
    /\ pendingPersistenceWrites = [k \in CacheKeys |-> 0]
    /\ writes = <<>>
    /\ chained = <<>>
    /\ removals = {}
    /\ reads = {}
    /\ failed = FALSE
    /\ unhandled = FALSE
    /\ made = {}
    /\ transcode = NoTranscode
    /\ download = NoDownload
    /\ execution = NoExecution
    /\ inference = NoInference

(***************************************************************************)
(* poll(), lines 88-107: the part that runs before the first await.        *)
(* running, tm and pt are isRunning, timers and pollTimeout of the worker  *)
(* as the caller leaves them.  With a job in hand poll() skips the          *)
(* acquisition and re-arms the timer at once.                              *)
(***************************************************************************)
SelectActivation == [pc |-> "select"]

PollEnter(w, running, tm, pt) ==
    IF ~running
    THEN /\ timers' = [timers EXCEPT ![w] = tm]
         /\ pollTimeout' = [pollTimeout EXCEPT ![w] = pt]
         /\ polls' = polls
    ELSE IF currentJob[w] # NoJob
    THEN /\ timers' = [timers EXCEPT ![w] = tm + 1]
         /\ pollTimeout' = [pollTimeout EXCEPT ![w] = "live"]
         /\ polls' = polls
    ELSE /\ timers' = [timers EXCEPT ![w] = tm]
         /\ pollTimeout' = [pollTimeout EXCEPT ![w] = pt]
         /\ polls' = [polls EXCEPT ![w] = @ (+) SetToBag({SelectActivation})]

\* start(), lines 57-58: this.isRunning = true; this.poll()
StartBody(w) ==
    /\ Loops(w) < MaxLoops
    /\ isRunning' = [isRunning EXCEPT ![w] = TRUE]
    /\ PollEnter(w, TRUE, timers[w], pollTimeout[w])
    /\ graceful' = [graceful EXCEPT ![w] = "none"]
    /\ redundantStart' = [redundantStart EXCEPT ![w] = isRunning[w]]
    /\ UNCHANGED <<storeVars, currentJob, execs, thrown, storeErrors>>

\* start() without the early return of line 56
StartAlways(w) == StartBody(w)

\* start(), lines 55-59
Start(w) ==
    IF isRunning[w]
    THEN /\ redundantStart' = [redundantStart EXCEPT ![w] = TRUE]
         /\ UNCHANGED <<storeVars, workerVars, thrown, storeErrors>>
    ELSE StartBody(w)

\* clearTimeout(this.pollTimeout); this.pollTimeout = null  (lines 63-66, 71-74)
ClearPollTimeout(w) ==
    /\ timers' = [timers EXCEPT ![w] = IF pollTimeout[w] = "live" THEN @ - 1 ELSE @]
    /\ pollTimeout' = [pollTimeout EXCEPT ![w] = "null"]

\* stop(), lines 61-67
Stop(w) ==
    /\ isRunning' = [isRunning EXCEPT ![w] = FALSE]
    /\ ClearPollTimeout(w)
    /\ redundantStart' = [redundantStart EXCEPT ![w] = FALSE]
    /\ UNCHANGED <<storeVars, currentJob, polls, execs, graceful, thrown, storeErrors>>

\* stopGracefully(), lines 69-78, up to its first await: with no current job the
\* loop is not entered and the promise resolves
StopGracefully(w) ==
    /\ isRunning' = [isRunning EXCEPT ![w] = FALSE]
    /\ ClearPollTimeout(w)
    /\ graceful' = [graceful EXCEPT ![w] =
                       IF currentJob[w] = NoJob THEN "resolved" ELSE "waiting"]
    /\ redundantStart' = [redundantStart EXCEPT ![w] = FALSE]
    /\ UNCHANGED <<storeVars, currentJob, polls, execs, thrown, storeErrors>>

\* one turn of `while (this.currentJob) await sleep(100)`, lines 75-77
GracefulTick(w) ==
    /\ graceful[w] = "waiting"
    /\ graceful' = [graceful EXCEPT ![w] =
                       IF currentJob[w] # NoJob THEN "waiting" ELSE "resolved"]
    /\ UNCHANGED <<storeVars, isRunning, currentJob, pollTimeout, timers, polls, execs,
                   historyVars>>

\* a setTimeout(() => this.poll(), pollIntervalMs) of line 106 fires: either the one
\* this.pollTimeout refers to, or one whose handle was overwritten by a later poll()
TimerFire(w) ==
    /\ timers[w] > 0
    /\ \E own \in BOOLEAN :
          /\ own => pollTimeout[w] = "live"
          /\ ~own => timers[w] > (IF pollTimeout[w] = "live" THEN 1 ELSE 0)
          /\ PollEnter(w, isRunning[w], timers[w] - 1,
                       IF own THEN "stale" ELSE pollTimeout[w])
    /\ UNCHANGED <<storeVars, isRunning, currentJob, execs, graceful, historyVars>>

\* this.pollTimeout = setTimeout(...), line 106
Rearm(w) ==
    /\ timers' = [timers EXCEPT ![w] = @ + 1]
    /\ pollTimeout' = [pollTimeout EXCEPT ![w] = "live"]

(***************************************************************************)
(* acquireJob(), lines 109-140.                                            *)
(***************************************************************************)
\* lines 112-124: the select is answered.  An error or an empty result makes
\* acquireJob return null, and poll() re-arms its timer.
AcquireSelect(w) ==
    \E a \in BagToSet(polls[w]) :
       /\ a.pc = "select"
       /\ \/ \E j \in SelectTop(jobs) :
                /\ polls' = [polls EXCEPT ![w] =
                       (@ (-) SetToBag({a})) (+) SetToBag({[pc |-> "update", job |-> Snapshot(j)]})]
                /\ UNCHANGED <<timers, pollTimeout, storeErrors>>
          \/ /\ polls' = [polls EXCEPT ![w] = @ (-) SetToBag({a})]
             /\ Rearm(w)
             /\ storeErrors' = (storeErrors \/ Pending(jobs) # {})
       /\ UNCHANGED <<storeVars, isRunning, currentJob, execs, graceful, redundantStart,
                      thrown>>

\* UPDATE job_queue SET status = 'processing' WHERE id = X AND status = 'pending'
ClaimRow(js, j) ==
    IF j \in DOMAIN js /\ js[j].status = "pending"
    THEN [js EXCEPT ![j].status = "processing"]
    ELSE js

\* the calls of processJob in flight in worker w for job j
ExecsOf(w, j) ==
    LET S == {x \in BagToSet(execs[w]) : x.job.id = j}
    IN BagCardinality([x \in S |-> CopiesIn(x, execs[w])])

RECURSIVE SumExecs(_, _)
SumExecs(S, j) ==
    IF S = {} THEN 0
    ELSE LET w == CHOOSE v \in S : TRUE
         IN ExecsOf(w, j) + SumExecs(S \ {w}, j)

InFlight(j) == SumExecs(Workers, j)

\* lines 126-139 and poll() lines 94-106: the update is answered.  Only an error
\* makes acquireJob return null; otherwise poll() takes the job as claimed, starts
\* processJob and re-arms its timer.
AcquireUpdate(w) ==
    \E a \in BagToSet(polls[w]) :
       /\ a.pc = "update"
       /\ polls' = [polls EXCEPT ![w] = @ (-) SetToBag({a})]
       /\ Rearm(w)
       /\ \/ /\ storeErrors' = TRUE
             /\ UNCHANGED <<jobs, currentJob, execs>>
          \/ /\ BagCardinality(execs[w]) < MaxExecs
             /\ jobs' = ClaimRow(jobs, a.job.id)
             /\ currentJob' = [currentJob EXCEPT ![w] = a.job]
             /\ execs' = [execs EXCEPT ![w] = @ (+) SetToBag({
                    [job |-> a.job, pc |-> "process", err |-> NoError]})]
             /\ UNCHANGED storeErrors
       /\ UNCHANGED <<documents, clock, isRunning, graceful, redundantStart, thrown>>

(***************************************************************************)
(* processJob(), lines 142-165, and the three job processors.              *)
(***************************************************************************)
\* what a processor can throw before it writes the document: a collaborator's error,
\* or for a transcription the size check of transcodeToMonoWav
Throwable(job) ==
    {Boom} \cup (IF job.job_type = "transcribe" THEN {SizeExceeded} ELSE {})

\* processJob settles: onComplete or onError has run, and the finally of lines 97-99
\* clears currentJob whichever job it holds
Settle(w, x) ==
    /\ execs' = [execs EXCEPT ![w] = @ (-) SetToBag({x})]
    /\ currentJob' = [currentJob EXCEPT ![w] = NoJob]

Advance(w, x, y) ==
    /\ execs' = [execs EXCEPT ![w] = (@ (-) SetToBag({x})) (+) SetToBag({y})]
    /\ UNCHANGED currentJob

Throws(j) == [thrown EXCEPT ![j] = IF @ = Succeeded THEN @ ELSE @ + 1]

\* processExtractJob / processAnalyzeJob / processTranscribeJob, lines 167-377:
\* the processor throws, or its document update is answered
ProcessJob(w) ==
    \E x \in BagToSet(execs[w]) :
       /\ x.pc = "process"
       /\ \/ /\ \E e \in (IF x.job.document_id = NoDoc THEN {NoDocumentId}
                          ELSE Throwable(x.job)) :
                   Advance(w, x, [x EXCEPT !.pc = "failjob", !.err = e])
             /\ thrown' = Throws(x.job.id)
             /\ UNCHANGED <<documents, storeErrors>>
          \/ /\ x.job.document_id # NoDoc
             /\ documents' = [documents EXCEPT ![x.job.document_id].status = "complete"]
             /\ Advance(w, x, [x EXCEPT !.pc = "complete"])
             /\ thrown' = [thrown EXCEPT ![x.job.id] = Succeeded]
             /\ UNCHANGED storeErrors
          \/ /\ x.job.document_id # NoDoc
             /\ Advance(w, x, [x EXCEPT !.pc = "failjob", !.err = UpdateFailed])
             /\ thrown' = Throws(x.job.id)
             /\ storeErrors' = TRUE
             /\ UNCHANGED documents
       /\ UNCHANGED <<jobs, clock, isRunning, pollTimeout, timers, polls, graceful,
                      redundantStart>>

\* an UPDATE job_queue ... WHERE id = X that the store applies (ok) or answers
\* with an error the caller does not look at
WriteJob(js, j, ok, status, attempts, msg) ==
    IF ok /\ j \in DOMAIN js
    THEN [js EXCEPT ![j].status = status, ![j].attempts = attempts,
                    ![j].error_message = msg]
    ELSE js

\* markJobComplete(), lines 379-388, then onComplete and the finally of line 97
MarkJobComplete(w) ==
    \E x \in BagToSet(execs[w]) : \E ok \in BOOLEAN :
       /\ x.pc = "complete"
       /\ jobs' = WriteJob(jobs, x.job.id, ok, "complete",
                           jobs[x.job.id].attempts, jobs[x.job.id].error_message)
       /\ Settle(w, x)
       /\ UNCHANGED <<documents, clock, isRunning, pollTimeout, timers, polls, graceful,
                      redundantStart, thrown>>
       /\ storeErrors' = (storeErrors \/ ~ok)

\* line 393
ShouldRetry(job) == job.attempts + 1 < job.max_attempts

\* handleJobFailure(), lines 390-413: the job row update; on the retry branch, and on
\* the final branch of a job without document, onError and the finally follow
HandleJobFailure(w) ==
    \E x \in BagToSet(execs[w]) : \E ok \in BOOLEAN :
       /\ x.pc = "failjob"
       /\ jobs' = WriteJob(jobs, x.job.id, ok,
                           IF ShouldRetry(x.job) THEN "pending" ELSE "failed",
                           x.job.attempts + 1, x.err)
       /\ IF ~ShouldRetry(x.job) /\ x.job.document_id # NoDoc
          THEN Advance(w, x, [x EXCEPT !.pc = "faildoc"])
          ELSE Settle(w, x)
       /\ UNCHANGED <<documents, clock, isRunning, pollTimeout, timers, polls, graceful,
                      redundantStart, thrown>>
       /\ storeErrors' = (storeErrors \/ ~ok)

\* handleJobFailure(), lines 415-424: the document update, then onError and the finally
FailDocument(w) ==
    \E x \in BagToSet(execs[w]) : \E ok \in BOOLEAN :
       /\ x.pc = "faildoc"
       /\ documents' = IF ok
                       THEN [documents EXCEPT ![x.job.document_id].status = "failed"]
                       ELSE documents
       /\ Settle(w, x)
       /\ UNCHANGED <<jobs, clock, isRunning, pollTimeout, timers, polls, graceful,
                      redundantStart, thrown>>
       /\ storeErrors' = (storeErrors \/ ~ok)

\* the rows inserted into job_queue: priority, max_attempts, job_type and whether a
\* document is linked
JobProfiles ==
    { [priority |-> 0, max_attempts |-> 1, job_type |-> "extract", linked |-> TRUE],
      [priority |-> 1, max_attempts |-> 2, job_type |-> "transcribe", linked |-> TRUE],
      [priority |-> 0, max_attempts |-> 2, job_type |-> "analyze", linked |-> FALSE] }

\* a row is inserted into job_queue (status 'pending', attempts 0, created_at now())
CreateJob(limit) ==
    /\ Cardinality(Created) < limit
    /\ \E p \in JobProfiles, tick \in (IF Created = {} THEN {0} ELSE {0, 1}) :
          LET j == Cardinality(Created) + 1 IN
             /\ clock' = clock + tick
             /\ jobs' = [k \in Created \cup {j} |->
                            IF k = j
                            THEN [status |-> "pending", attempts |-> 0,
                                  max_attempts |-> p.max_attempts,
                                  error_message |-> NoError,
                                  priority |-> p.priority, created_at |-> clock + tick,
                                  document_id |-> IF p.linked THEN j ELSE NoDoc,
                                  job_type |-> p.job_type]
                            ELSE jobs[k]]
    /\ UNCHANGED <<documents, workerVars, historyVars>>

(***************************************************************************)
(* Spec: NumWorkers workers, each started once and left running, poll the  *)
(* same store.                                                             *)
(***************************************************************************)
Next ==
    \/ CreateJob(PoolJobs) /\ UNCHANGED serviceVars
    \/ \E w \in Workers : ~isRunning[w] /\ Start(w) /\ UNCHANGED serviceVars
    \/ \E w \in Workers : TimerFire(w) /\ UNCHANGED serviceVars
    \/ \E w \in Workers : AcquireSelect(w) /\ UNCHANGED serviceVars
    \/ \E w \in Workers : AcquireUpdate(w) /\ UNCHANGED serviceVars
    \/ \E w \in Workers : ProcessJob(w) /\ UNCHANGED serviceVars
    \/ \E w \in Workers : MarkJobComplete(w) /\ UNCHANGED serviceVars
    \/ \E w \in Workers : HandleJobFailure(w) /\ UNCHANGED serviceVars
    \/ \E w \in Workers : FailDocument(w) /\ UNCHANGED serviceVars

Spec == Init /\ [][Next]_vars

\* the worker of the specifications with one worker
Solo == CHOOSE w \in Workers : \A v \in Workers : w <= v

(***************************************************************************)
(* SpecQueue: one worker, on which start() is called any number of times   *)
(* and which is never stopped, works through a queue of NumJobs rows.      *)
(***************************************************************************)
NextQueue ==
    \/ CreateJob(NumJobs) /\ UNCHANGED serviceVars
    \/ Start(Solo) /\ UNCHANGED serviceVars
    \/ TimerFire(Solo) /\ UNCHANGED serviceVars
    \/ AcquireSelect(Solo) /\ UNCHANGED serviceVars
    \/ AcquireUpdate(Solo) /\ UNCHANGED serviceVars
    \/ ProcessJob(Solo) /\ UNCHANGED serviceVars
    \/ MarkJobComplete(Solo) /\ UNCHANGED serviceVars
    \/ HandleJobFailure(Solo) /\ UNCHANGED serviceVars
    \/ FailDocument(Solo) /\ UNCHANGED serviceVars

SpecQueue == Init /\ [][NextQueue]_vars

(***************************************************************************)
(* SpecLifecycle: one worker under any sequence of start(), stop() and     *)
(* stopGracefully() calls.  A start() on a running worker returns at line  *)
(* 56 and changes nothing; it is left to SpecQueue.                        *)
(***************************************************************************)
NextLifecycle ==
    \/ CreateJob(SoloJobs) /\ UNCHANGED serviceVars
    \/ ~isRunning[Solo] /\ Start(Solo) /\ UNCHANGED serviceVars
    \/ Stop(Solo) /\ UNCHANGED serviceVars
    \/ StopGracefully(Solo) /\ UNCHANGED serviceVars
    \/ GracefulTick(Solo) /\ UNCHANGED serviceVars
    \/ TimerFire(Solo) /\ UNCHANGED serviceVars
    \/ AcquireSelect(Solo) /\ UNCHANGED serviceVars
    \/ AcquireUpdate(Solo) /\ UNCHANGED serviceVars
    \/ ProcessJob(Solo) /\ UNCHANGED serviceVars
    \/ MarkJobComplete(Solo) /\ UNCHANGED serviceVars
    \/ HandleJobFailure(Solo) /\ UNCHANGED serviceVars
    \/ FailDocument(Solo) /\ UNCHANGED serviceVars

SpecLifecycle == Init /\ [][NextLifecycle]_vars

(***************************************************************************)
(* SpecProcessJob: one call of processJob(job), lines 142-165, seen from   *)
(* inside: every await of the processor, of markJobComplete and of         *)
(* handleJobFailure is a step, and the callbacks are functions of the      *)
(* embedder that return or throw.  The job was claimed with attempts 0;    *)
(* its row is in status processing.                                        *)
(***************************************************************************)
JobTypes == {"extract", "analyze", "transcribe", "unknown"}
Documents == {"missing", "without storage_path", "with storage_path"}
DocumentNotFound == "Document not found"
NoStoragePath == "Document has no storage_path"
UnknownJobType == "Unknown job type"
CallbackError == "callback threw"

\* the catch of line 160 is entered with the error
Caught(x, error) == [x EXCEPT !.pc = "failjob", !.err = error]

\* processJob(job) up to the first await of the processor, lines 142-155,
\* 167-172, 248-253, 317-322
ProcessJobCalled(type, linked, max_attempts) ==
    /\ execution.pc = "idle"
    /\ LET x == [NoExecution EXCEPT !.job_type = type, !.linked = linked,
                                    !.max_attempts = max_attempts,
                                    !.settled = "pending"]
       IN  execution' =
               IF type = "unknown" THEN Caught(x, UnknownJobType)
               ELSE IF ~linked THEN Caught(x, NoDocumentId)
               ELSE [x EXCEPT !.pc = "lookup"]

\* the storage path is required by extract and transcribe, lines 185-187, 336-338
NeedsStoragePath(type) == type \in {"extract", "transcribe"}

\* the select of the document is answered, lines 174-187, 255-263, 324-338
DocumentAnswered(document) ==
    /\ execution.pc = "lookup"
    /\ LET x == [execution EXCEPT !.document = document]
       IN  execution' =
               IF document = "missing" THEN Caught(x, DocumentNotFound)
               ELSE IF document = "without storage_path" /\ NeedsStoragePath(x.job_type)
               THEN Caught(x, NoStoragePath)
               ELSE [x EXCEPT !.pc = "work"]

\* the download and the extraction, analysis or transcription return or throw,
\* lines 189-227, 265-299, 340-361
WorkSettles(ok) ==
    /\ execution.pc = "work"
    /\ execution' = IF ok THEN [execution EXCEPT !.pc = "write"]
                    ELSE Caught(execution, Boom)

\* a processor that does not look at the answer to its document update
DocumentWriteUnchecked(ok) ==
    /\ execution.pc = "write"
    /\ execution' = [execution EXCEPT
                         !.pc = "mark",
                         !.documentStatus = IF ok THEN "complete" ELSE @,
                         !.documentWritten = ok]

\* the update of the document is answered, lines 229-245, 301-314, 363-376
DocumentWriteAnswered(ok) ==
    /\ execution.pc = "write"
    /\ execution' = IF ok
                    THEN [execution EXCEPT !.pc = "mark", !.documentStatus = "complete",
                                           !.documentWritten = TRUE]
                    ELSE Caught(execution, UpdateFailed)

\* the update of markJobComplete is answered, lines 379-388, and onComplete is
\* called, line 159: it returns and processJob fulfils, or it throws
MarkAnswered(ok, throws) ==
    /\ execution.pc = "mark"
    /\ LET x == [execution EXCEPT !.row = IF ok THEN "complete" ELSE @,
                                  !.markedComplete = ok,
                                  !.completeCalls = @ + 1,
                                  !.callbackThrew = throws]
       IN  execution' = IF throws THEN Caught(x, CallbackError)
                        ELSE [x EXCEPT !.pc = "done", !.settled = "fulfilled"]

\* onError is called, line 163: it returns and processJob fulfils, or it throws
\* and processJob rejects
OnError(x, throws) ==
    [x EXCEPT !.pc = "done", !.errorCalls = @ + 1,
              !.callbackThrew = @ \/ throws,
              !.settled = IF throws THEN "rejected" ELSE "fulfilled"]

\* the update of the row by handleJobFailure is answered, lines 390-413
FailureAnswered(ok, throws) ==
    /\ execution.pc = "failjob"
    /\ LET shouldRetry == 0 + 1 < execution.max_attempts
           x == IF ok
                THEN [execution EXCEPT !.row = IF shouldRetry THEN "pending" ELSE "failed",
                                       !.rowAttempts = 1]
                ELSE execution
       IN  execution' = IF ~shouldRetry /\ x.linked
                        THEN [x EXCEPT !.pc = "faildoc"]
                        ELSE OnError(x, throws)

\* the update of the document by handleJobFailure is answered, lines 415-424
FailDocumentAnswered(ok, throws) ==
    /\ execution.pc = "faildoc"
    /\ execution' = OnError([execution EXCEPT
                                 !.documentStatus = IF ok THEN "failed" ELSE @], throws)

processJobFrame ==
    <<storeVars, workerVars, historyVars, limiterVars, cacheVars, persistVars, mediaVars,
      inference>>

NextProcessJob ==
    \/ \E t \in JobTypes, l \in BOOLEAN, a \in {1, 2} :
          ProcessJobCalled(t, l, a) /\ UNCHANGED processJobFrame
    \/ \E d \in Documents : DocumentAnswered(d) /\ UNCHANGED processJobFrame
    \/ \E ok \in BOOLEAN : WorkSettles(ok) /\ UNCHANGED processJobFrame
    \/ \E ok \in BOOLEAN : DocumentWriteAnswered(ok) /\ UNCHANGED processJobFrame
    \/ \E ok \in BOOLEAN, throws \in BOOLEAN :
          MarkAnswered(ok, throws) /\ UNCHANGED processJobFrame
    \/ \E ok \in BOOLEAN, throws \in BOOLEAN :
          FailureAnswered(ok, throws) /\ UNCHANGED processJobFrame
    \/ \E ok \in BOOLEAN, throws \in BOOLEAN :
          FailDocumentAnswered(ok, throws) /\ UNCHANGED processJobFrame

SpecProcessJob == Init /\ [][NextProcessJob]_vars

(***************************************************************************)
(* Part 2: the rate limiter (src/lib/rateLimiter.ts), the singleton        *)
(* `rateLimiter` built from DEFAULT_CONFIG, and withRateLimit around it.   *)
(* canProceed and consume run to completion in one step.  waitForTokens    *)
(* runs one iteration of its loop per step: the first one inside the       *)
(* call, the next ones when its sleep ends.                                *)
(***************************************************************************)
workerSide == <<storeVars, workerVars, historyVars>>
limiterFrame == <<workerSide, cacheVars, persistVars, mediaVars, flowVars>>

\* the keys, estimates and waits the callers of the model pass
UnlistedModel == "unlisted-model"
Keys == {ProModel, UnlistedModel} \cup InheritedNames
Estimates == {DefaultEstimatedTokens, HugeEstimate}
MaxWaits(model) == IF model \in InheritedNames THEN {0, ShortWaitMs} ELSE {0, LongWaitMs}
Elapse == {StepMs, MsPerMinute}

\* ensureBucket, lines 82-92
ensureBucket(bs, model, t) ==
    IF model \in DOMAIN bs THEN bs ELSE bs @@ (model :> FullBucket(model, t))

ensureStats(st, model) ==
    IF model \in DOMAIN st THEN st ELSE st @@ (model :> NoStats)

\* a refill that is not capped at the capacity
refillUncapped(bucket, model, t) ==
    LET elapsedMs == t - bucket.lastRefill
    IN  IF elapsedMs > 0
        THEN [requestTokens |->
                 Plus(bucket.requestTokens,
                      Times(PerMs(RequestCapacity(model)), elapsedMs)),
              tokenTokens |->
                 Plus(bucket.tokenTokens,
                      Times(PerMs(TokenCapacity(model)), elapsedMs)),
              lastRefill |-> t]
        ELSE bucket

\* refill, lines 96-112, on the bucket of the model
refill(bucket, model, t) ==
    LET elapsedMs == t - bucket.lastRefill
    IN  IF elapsedMs > 0
        THEN [requestTokens |->
                 MathMin(RequestCapacity(model),
                         Plus(bucket.requestTokens,
                              Times(PerMs(RequestCapacity(model)), elapsedMs))),
              tokenTokens |->
                 MathMin(TokenCapacity(model),
                         Plus(bucket.tokenTokens,
                              Times(PerMs(TokenCapacity(model)), elapsedMs))),
              lastRefill |-> t]
        ELSE bucket

\* this.refill(model) on the map of buckets
Refilled(bs, model, t) ==
    LET present == ensureBucket(bs, model, t)
    IN  [present EXCEPT ![model] = refill(present[model], model, t)]

\* the test of lines 118 and 129
Sufficient(bucket, estimatedTokens) ==
    /\ AtLeast(bucket.requestTokens, Requests(1))
    /\ AtLeast(bucket.tokenTokens, Tokens(estimatedTokens))

\* a consume that does not clamp at zero
ConsumedUnclamped(bs, model, tokensUsed, t) ==
    LET filled == Refilled(bs, model, t)
        bucket == filled[model]
    IN  [filled EXCEPT ![model] =
            [bucket EXCEPT
                !.requestTokens = Minus(bucket.requestTokens, Requests(1)),
                !.tokenTokens = Minus(bucket.tokenTokens, Tokens(tokensUsed))]]

\* consume, lines 147-157, on the map of buckets
Consumed(bs, model, tokensUsed, t) ==
    LET filled == Refilled(bs, model, t)
        bucket == filled[model]
    IN  [filled EXCEPT ![model] =
            [bucket EXCEPT
                !.requestTokens = MathMax(0, Minus(bucket.requestTokens, Requests(1))),
                !.tokenTokens = MathMax(0, Minus(bucket.tokenTokens, Tokens(tokensUsed)))]]

\* consume, lines 159-164, on the map of statistics
Counted(st, model, tokensUsed) ==
    LET present == ensureStats(st, model)
    IN  [present EXCEPT ![model].requests = @ + 1, ![model].tokens = @ + tokensUsed]

\* recordWait, lines 167-176
recordWait(st, model, waitMs) ==
    IF model \in DOMAIN st
    THEN [st EXCEPT ![model].waits = @ + 1, ![model].waitTimeMs = @ + waitMs]
    ELSE st

\* getStats, lines 193-200, for one model
getStats(model) ==
    [availableRequests |->
        IF IsNaN(buckets[model].requestTokens) THEN NaN
        ELSE FloorDiv(buckets[model].requestTokens, RequestScale),
     availableTokens |->
        IF IsNaN(buckets[model].tokenTokens) THEN NaN
        ELSE FloorDiv(buckets[model].tokenTokens, TokenScale),
     totalRequests |-> stats[model].requests,
     totalTokensConsumed |-> stats[model].tokens,
     totalWaits |-> stats[model].waits,
     totalWaitTimeMs |-> stats[model].waitTimeMs]

\* a sleep as long as the deficit takes, however long
WaitMsUncapped(bucket, model, estimatedTokens) ==
    LET requestDeficit == MathMax(0, Minus(Requests(1), bucket.requestTokens))
        tokenDeficit == MathMax(0, Minus(Tokens(estimatedTokens), bucket.tokenTokens))
        requestWaitMs ==
            IF IsNaN(requestDeficit) \/ IsNaN(RequestCapacity(model)) THEN NaN
            ELSE CeilDiv(requestDeficit, PerMs(RequestCapacity(model)))
        tokenWaitMs ==
            IF IsNaN(tokenDeficit) \/ IsNaN(TokenCapacity(model)) THEN NaN
            ELSE CeilDiv(tokenDeficit, PerMs(TokenCapacity(model)))
    IN  MathMax(requestWaitMs, tokenWaitMs)

\* the sleep of lines 133-141 for a bucket that is not sufficient
WaitMs(bucket, model, estimatedTokens) ==
    LET requestDeficit == MathMax(0, Minus(Requests(1), bucket.requestTokens))
        tokenDeficit == MathMax(0, Minus(Tokens(estimatedTokens), bucket.tokenTokens))
        requestWaitMs ==
            IF IsNaN(requestDeficit) \/ IsNaN(RequestCapacity(model)) THEN NaN
            ELSE CeilDiv(requestDeficit, PerMs(RequestCapacity(model)))
        tokenWaitMs ==
            IF IsNaN(tokenDeficit) \/ IsNaN(TokenCapacity(model)) THEN NaN
            ELSE CeilDiv(tokenDeficit, PerMs(TokenCapacity(model)))
    IN  MathMin(MathMax(requestWaitMs, tokenWaitMs), MaxSleepMs)

\* setTimeout(resolve, ms), line 207: a delay that is NaN or below 1 is taken as 1
TimerDelay(ms) == IF IsNaN(ms) \/ ms < TimerMinMs THEN TimerMinMs ELSE ms

\* consume() calls so far, over all keys
RECURSIVE SumRequests(_, _)
SumRequests(st, S) ==
    IF S = {} THEN 0
    ELSE LET k == CHOOSE x \in S : TRUE
         IN  st[k].requests + SumRequests(st, S \ {k})

TotalRequests(st) == SumRequests(st, DOMAIN st)

Waiting == {c \in BagToSet(calls) : c.pc = "wait"}
Operating == {c \in BagToSet(calls) : c.pc = "operation"}
Without(c) == calls (-) SetToBag({c})
\* Date.now() moves on by d ms.  Timers fire on time: the clock does not pass the
\* end of a sleep before the sleeper has run.
Tick(d) ==
    /\ d > 0
    /\ now + d <= MaxNow
    /\ \A c \in Waiting : c.wake >= now + d
    /\ now' = now + d
    /\ UNCHANGED <<buckets, stats, calls, done, started>>

\* a canProceed that charges the request it admits
CanProceedCharging(model, estimatedTokens) ==
    LET filled == Refilled(buckets, model, now)
    IN  /\ buckets' = IF Sufficient(filled[model], estimatedTokens)
                      THEN Consumed(buckets, model, estimatedTokens, now)
                      ELSE filled
        /\ stats' = ensureStats(stats, model)
        /\ done' = [call |-> [kind |-> "canProceed", model |-> model,
                              estimatedTokens |-> estimatedTokens],
                    result |-> Sufficient(filled[model], estimatedTokens),
                    at |-> now, operation |-> "none"]
        /\ UNCHANGED <<now, calls, started>>

\* canProceed(model, estimatedTokens), lines 115-119
CanProceed(model, estimatedTokens) ==
    LET filled == Refilled(buckets, model, now)
    IN  /\ buckets' = filled
        /\ stats' = ensureStats(stats, model)
        /\ done' = [call |-> [kind |-> "canProceed", model |-> model,
                              estimatedTokens |-> estimatedTokens],
                    result |-> Sufficient(filled[model], estimatedTokens),
                    at |-> now, operation |-> "none"]
        /\ UNCHANGED <<now, calls, started>>

\* consume(model, tokensUsed), lines 147-165
Consume(model, tokensUsed) ==
    /\ TotalRequests(stats) < MaxConsumes
    /\ buckets' = Consumed(buckets, model, tokensUsed, now)
    /\ stats' = Counted(stats, model, tokensUsed)
    /\ UNCHANGED <<now, calls, done, started>>

RateLimitError == "Rate limit exceeded"

\* a withRateLimit that charges the caller for the wait that timed out
TimedOutCharging(c, rest) ==
    /\ calls' = rest
    /\ done' = [call |-> c, at |-> now, operation |-> "none",
                result |-> IF c.kind = "waitForTokens" THEN FALSE ELSE RateLimitError]
    /\ buckets' = Consumed(buckets, c.model, c.estimatedTokens, now)
    /\ stats' = Counted(stats, c.model, c.estimatedTokens)

\* maxWaitMs has elapsed: waitForTokens returns false, line 144, and withRateLimit
\* throws, lines 223-225
TimedOut(c, rest) ==
    /\ calls' = rest
    /\ done' = [call |-> c, at |-> now, operation |-> "none",
                result |-> IF c.kind = "waitForTokens" THEN FALSE ELSE RateLimitError]
    /\ UNCHANGED <<buckets, stats>>

\* One iteration of the loop of waitForTokens, lines 125-144, for the call c, and
\* for a call of withRateLimit what follows the await of line 221 up to the
\* invocation of the operation, lines 223-233.  rest is the other calls in flight.
WaitLoop(c, rest) ==
    IF now - c.startTime < c.maxWaitMs
    THEN LET filled == Refilled(buckets, c.model, now)
             bucket == filled[c.model]
             st == ensureStats(stats, c.model)
             waitTime == now - c.startTime
         IN  /\ buckets' = filled
             /\ IF Sufficient(bucket, c.estimatedTokens)
                THEN IF c.kind = "waitForTokens"
                     THEN /\ calls' = rest
                          /\ stats' = st
                          /\ done' = [call |-> c, result |-> TRUE, at |-> now,
                                      operation |-> "none"]
                     ELSE /\ calls' = rest (+) SetToBag({[c EXCEPT !.pc = "operation"]})
                          /\ stats' = IF waitTime > WaitRecordedAboveMs
                                      THEN recordWait(st, c.model, waitTime)
                                      ELSE st
                          /\ done' = done
                ELSE /\ calls' = rest (+) SetToBag({[c EXCEPT !.wake =
                            now + TimerDelay(WaitMs(bucket, c.model, c.estimatedTokens))]})
                     /\ stats' = st
                     /\ done' = done
    ELSE TimedOut(c, rest)

NewCall(kind, model, estimatedTokens, maxWaitMs) ==
    [kind |-> kind, model |-> model, estimatedTokens |-> estimatedTokens,
     maxWaitMs |-> maxWaitMs, startTime |-> now, pc |-> "wait", wake |-> now]

\* waitForTokens(model, {estimatedTokens, maxWaitMs}) is called, lines 121-131
WaitForTokens(model, estimatedTokens, maxWaitMs) ==
    /\ BagCardinality(calls) < MaxCalls
    /\ started < MaxStarted
    /\ started' = started + 1
    /\ WaitLoop(NewCall("waitForTokens", model, estimatedTokens, maxWaitMs), calls)
    /\ UNCHANGED now

\* withRateLimit(model, operation, {estimatedTokens, maxWaitMs}) is called,
\* lines 213-221
WithRateLimit(model, estimatedTokens, maxWaitMs) ==
    /\ BagCardinality(calls) < MaxCalls
    /\ started < MaxStarted
    /\ started' = started + 1
    /\ WaitLoop(NewCall("withRateLimit", model, estimatedTokens, maxWaitMs), calls)
    /\ UNCHANGED now

\* the sleep of line 141 ends
Wake(c) ==
    /\ c \in Waiting
    /\ c.wake = now
    /\ WaitLoop(c, Without(c))
    /\ UNCHANGED <<now, started>>

OperationOutcomes == {"success", "Operation failed"}

\* a withRateLimit that charges only the operations that resolve
OperationSettlesFreeOnError(c, outcome) ==
    /\ c \in Operating
    /\ TotalRequests(stats) < MaxConsumes
    /\ buckets' = IF outcome = "success"
                  THEN Consumed(buckets, c.model, c.estimatedTokens, now)
                  ELSE buckets
    /\ stats' = IF outcome = "success"
                THEN Counted(stats, c.model, c.estimatedTokens)
                ELSE stats
    /\ calls' = Without(c)
    /\ done' = [call |-> c, result |-> outcome, at |-> now, operation |-> outcome]
    /\ UNCHANGED <<now, started>>

\* the operation of a withRateLimit call resolves or rejects, lines 232-239
OperationSettles(c, outcome) ==
    /\ c \in Operating
    /\ TotalRequests(stats) < MaxConsumes
    /\ buckets' = Consumed(buckets, c.model, c.estimatedTokens, now)
    /\ stats' = Counted(stats, c.model, c.estimatedTokens)
    /\ calls' = Without(c)
    /\ done' = [call |-> c, result |-> outcome, at |-> now, operation |-> outcome]
    /\ UNCHANGED <<now, started>>

(***************************************************************************)
(* SpecLimiter: callers of canProceed and consume, and the passage of      *)
(* time.                                                                   *)
(***************************************************************************)
NextLimiter ==
    \/ \E d \in Elapse : Tick(d) /\ UNCHANGED limiterFrame
    \/ \E k \in Keys, e \in Estimates : CanProceed(k, e) /\ UNCHANGED limiterFrame
    \/ \E k \in Keys, u \in Estimates : Consume(k, u) /\ UNCHANGED limiterFrame

SpecLimiter == Init /\ [][NextLimiter]_vars

(***************************************************************************)
(* SpecWait: callers of waitForTokens, withRateLimit and consume.  Time    *)
(* passes while a call sleeps or its operation runs.                       *)
(***************************************************************************)
NextWait ==
    \/ \E d \in {c.wake - now : c \in Waiting} : Tick(d) /\ UNCHANGED limiterFrame
    \/ \E d \in Elapse : Operating # {} /\ Tick(d) /\ UNCHANGED limiterFrame
    \/ \E k \in Keys, u \in Estimates : Consume(k, u) /\ UNCHANGED limiterFrame
    \/ \E k \in Keys, e \in Estimates : \E m \in MaxWaits(k) :
          WaitForTokens(k, e, m) /\ UNCHANGED limiterFrame
    \/ \E k \in Keys, e \in Estimates : \E m \in MaxWaits(k) :
          WithRateLimit(k, e, m) /\ UNCHANGED limiterFrame
    \/ \E c \in Waiting : Wake(c) /\ UNCHANGED limiterFrame
    \/ \E c \in Operating, o \in OperationOutcomes :
          OperationSettles(c, o) /\ UNCHANGED limiterFrame

SpecWait == Init /\ [][NextWait]_vars

(***************************************************************************)
(* SpecConcurrent: several callers of withRateLimit on one key at a time,  *)
(* and nobody else.  Each await of a call is a point where the other calls *)
(* run.                                                                    *)
(***************************************************************************)
\* withRateLimit(model, operation, {estimatedTokens, maxWaitMs}) is called while
\* other calls are in flight, lines 213-221
ConcurrentWithRateLimit(model, estimatedTokens, maxWaitMs) ==
    /\ BagCardinality(calls) < MaxConcurrent
    /\ started < MaxConcurrent
    /\ started' = started + 1
    /\ WaitLoop(NewCall("withRateLimit", model, estimatedTokens, maxWaitMs), calls)
    /\ UNCHANGED now

NextConcurrent ==
    \/ \E d \in {c.wake - now : c \in Waiting} : Tick(d) /\ UNCHANGED limiterFrame
    \/ \E d \in Elapse : Operating # {} /\ Tick(d) /\ UNCHANGED limiterFrame
    \/ \E e \in Estimates : \E m \in MaxWaits(ProModel) :
          ConcurrentWithRateLimit(ProModel, e, m) /\ UNCHANGED limiterFrame
    \/ \E c \in Waiting : Wake(c) /\ UNCHANGED limiterFrame
    \/ \E c \in Operating, o \in OperationOutcomes :
          OperationSettles(c, o) /\ UNCHANGED limiterFrame

SpecConcurrent == Init /\ [][NextConcurrent]_vars

(***************************************************************************)
(* Part 3: the result cache (src/lib/cache.ts), class LRUCache.  set, has,  *)
(* delete, clear and cleanup run to completion in one step, and so does    *)
(* get unless it awaits the persistence adapter (line 81).  The calls the  *)
(* cache makes to the adapter settle in steps of their own, in any order.  *)
(***************************************************************************)
cacheFrame == <<workerSide, buckets, stats, calls, done, started, mediaVars, flowVars>>

\* one more call of a method of the cache
Called ==
    /\ ops < MaxOps
    /\ ops' = ops + 1

Positions(c, key) == {i \in 1..Len(c) : c[i].key = key}
Has(c, key) == Positions(c, key) # {}
Entry(c, key) == c[CHOOSE i \in Positions(c, key) : TRUE]
\* Map.delete(key)
Removed(c, key) == SelectSeq(c, LAMBDA e : e.key # key)
\* an entry that never expires
ExpiredNever(entry, t) == FALSE

\* now > entry.expiresAt, lines 93, 150, 200
Expired(entry, t) == t > entry.expiresAt

\* evictLRU, lines 189-195: the first key of the Map goes, unless it is falsy
Evicts(c) == c # <<>> /\ Head(c).key # ""
evictLRU(c) == IF Evicts(c) THEN Tail(c) ELSE c

\* the Map after the in-memory part of set(key, value, ttlMs) at time t, lines 110-128
Inserted(c, key, value, ttlMs, t) ==
    LET kept == IF Has(c, key) THEN Removed(c, key)
                ELSE IF Len(c) >= maxSize THEN evictLRU(c)
                ELSE c
    IN  Append(kept, [key |-> key, value |-> value, createdAt |-> t,
                      expiresAt |-> t + ttlMs,
                      accessCount |-> 0, lastAccessedAt |-> t])

\* that set evicts an entry
InsertEvicts(c, key) == ~Has(c, key) /\ Len(c) >= maxSize /\ Evicts(c)

\* setPersistenceAdapter has been called
Persistent == persistenceAdapter # Null

\* the promise of adapter.set(key, value, ttlMs) called at time t; the row it will
\* write expires at Date.now() + ttlMs, line 276
NewWrite(key, value, ttlMs, t) ==
    [key |-> key, value |-> value, expiresAt |-> t + ttlMs, state |-> "pending"]

\* the end of set, lines 130-143: the write goes to the adapter now, or in a
\* then-callback of the write that pendingPersistenceWrites holds for the key
Forward(key, value, ttlMs) ==
    IF ~Persistent
    THEN UNCHANGED <<writes, chained, pendingPersistenceWrites>>
    ELSE IF pendingPersistenceWrites[key] # 0
    THEN /\ chained' = Append(chained, [after |-> pendingPersistenceWrites[key],
                                        key |-> key, value |-> value, ttlMs |-> ttlMs])
         /\ UNCHANGED <<writes, pendingPersistenceWrites>>
    ELSE /\ writes' = Append(writes, NewWrite(key, value, ttlMs, now))
         /\ pendingPersistenceWrites' =
                [pendingPersistenceWrites EXCEPT ![key] = Len(writes) + 1]
         /\ UNCHANGED chained

\* a get that restarts the time to live of the entry it returns
GetRenewing(key) ==
    /\ Has(cache, key)
    /\ ~Expired(Entry(cache, key), now)
    /\ Called
    /\ cache' = Append(Removed(cache, key),
                       [Entry(cache, key) EXCEPT !.accessCount = @ + 1,
                                                 !.lastAccessedAt = now,
                                                 !.expiresAt = now + defaultTtlMs])
    /\ cacheStats' = [cacheStats EXCEPT !.hits = @ + 1]
    /\ got' = [op |-> "get", key |-> key, result |-> Entry(cache, key).value]
    /\ UNCHANGED <<persistenceAdapter, written, invalidated, now, persistVars>>

\* get(key) finds an entry that has not expired, lines 77, 92-106
GetHit(key) ==
    /\ Has(cache, key)
    /\ ~Expired(Entry(cache, key), now)
    /\ Called
    /\ cache' = Append(Removed(cache, key),
                       [Entry(cache, key) EXCEPT !.accessCount = @ + 1,
                                                 !.lastAccessedAt = now])
    /\ cacheStats' = [cacheStats EXCEPT !.hits = @ + 1]
    /\ got' = [op |-> "get", key |-> key, result |-> Entry(cache, key).value]
    /\ UNCHANGED <<persistenceAdapter, written, invalidated, now, persistVars>>

\* the suspended gets after a set, delete or clear of the keys
Outdated(rs, keys) ==
    {[r EXCEPT !.since = IF r.key \in keys THEN FALSE ELSE @] : r \in rs}

\* get(key) finds no entry and there is no adapter, lines 77-79, 88-89, or
\* finds an expired entry, lines 92-97
GetMiss(key) ==
    /\ IF Has(cache, key) THEN Expired(Entry(cache, key), now) ELSE ~Persistent
    /\ Called
    /\ cache' = Removed(cache, key)
    /\ cacheStats' = [cacheStats EXCEPT !.misses = @ + 1]
    /\ got' = [op |-> "get", key |-> key, result |-> Null]
    /\ UNCHANGED <<persistenceAdapter, written, invalidated, now, persistVars>>

\* get(key) finds no entry and awaits adapter.get(key), lines 77-81
GetFallsThrough(key) ==
    /\ ~Has(cache, key)
    /\ Persistent
    /\ \A r \in reads : r.key # key
    /\ Called
    /\ reads' = reads \cup {[key |-> key, since |-> key \in invalidated]}
    /\ UNCHANGED <<cache, cacheStats, persistenceAdapter, got, written, invalidated, now,
                   adapterStore,
                   pendingPersistenceWrites, writes, chained, removals, failed, unhandled>>

\* get(key), lines 76-107
Get(key) == GetHit(key) \/ GetMiss(key) \/ GetFallsThrough(key)

\* ttlMs ?? this.config.defaultTtlMs
TtlOr(ttlMs) == IF ttlMs = Undefined THEN defaultTtlMs ELSE ttlMs

\* set(key, value, ttlMs), lines 109-144
Set(key, value, ttlMs) ==
    /\ Called
    /\ cache' = Inserted(cache, key, value, TtlOr(ttlMs), now)
    /\ cacheStats' = [cacheStats EXCEPT
                         !.evictions = IF InsertEvicts(cache, key) THEN @ + 1 ELSE @]
    /\ Forward(key, value, TtlOr(ttlMs))
    /\ written' = [written EXCEPT ![key] = value]
    /\ invalidated' = invalidated \ {key}
    /\ reads' = Outdated(reads, {key})
    /\ UNCHANGED <<persistenceAdapter, got, now, adapterStore, removals, failed, unhandled>>

\* has(key), lines 146-156
HasKey(key) ==
    /\ Called
    /\ cache' = IF Has(cache, key) /\ Expired(Entry(cache, key), now)
                THEN Removed(cache, key) ELSE cache
    /\ got' = [op |-> "has", key |-> key,
               found |-> Has(cache, key) /\ ~Expired(Entry(cache, key), now)]
    /\ UNCHANGED <<cacheStats, persistenceAdapter, written, invalidated, now, persistVars>>

\* delete(key), lines 158-164: the adapter is told only if the Map held the key
Delete(key) ==
    /\ Called
    /\ cache' = Removed(cache, key)
    /\ removals' = IF Has(cache, key) /\ Persistent
                   THEN removals \cup {[kind |-> "delete", key |-> key]}
                   ELSE removals
    /\ invalidated' = invalidated \cup {key}
    /\ reads' = Outdated(reads, {key})
    /\ UNCHANGED <<cacheStats, persistenceAdapter, got, written, now, adapterStore,
                   pendingPersistenceWrites, writes, chained, failed, unhandled>>

\* clear(), lines 166-171
Clear ==
    /\ Called
    /\ cache' = <<>>
    /\ removals' = IF Persistent
                   THEN removals \cup {[kind |-> "clear", key |-> Null]}
                   ELSE removals
    /\ invalidated' = CacheKeys
    /\ reads' = Outdated(reads, CacheKeys)
    /\ UNCHANGED <<cacheStats, persistenceAdapter, got, written, now, adapterStore,
                   pendingPersistenceWrites, writes, chained, failed, unhandled>>

\* resetStats(), lines 185-187
ResetStats ==
    /\ Called
    /\ cacheStats' = [hits |-> 0, misses |-> 0, evictions |-> 0]
    /\ UNCHANGED <<cache, persistenceAdapter, got, written, invalidated, now, persistVars>>

\* cleanup(), lines 197-204, whenever the interval timer of line 207 fires
Cleanup ==
    /\ Called
    /\ cache' = SelectSeq(cache, LAMBDA e : ~Expired(e, now))
    /\ UNCHANGED <<cacheStats, persistenceAdapter, got, written, invalidated, now, persistVars>>

\* Date.now() moves on by d ms
CacheTick(d) ==
    /\ Tick(d)
    /\ UNCHANGED <<cacheVars, persistVars, mediaVars, flowVars>>

(***************************************************************************)
(* SpecCache: any callers of one LRUCache, its cleanup timer and the       *)
(* passage of time.                                                        *)
(***************************************************************************)
NextCache ==
    \/ \E d \in Elapse : CacheTick(d) /\ UNCHANGED workerSide
    \/ \E k \in CacheKeys : GetHit(k) /\ UNCHANGED cacheFrame
    \/ \E k \in CacheKeys : GetMiss(k) /\ UNCHANGED cacheFrame
    \/ \E k \in CacheKeys, v \in CacheValues, t \in Ttls : Set(k, v, t) /\ UNCHANGED cacheFrame
    \/ \E k \in CacheKeys : HasKey(k) /\ UNCHANGED cacheFrame
    \/ \E k \in CacheKeys : Delete(k) /\ UNCHANGED cacheFrame
    \/ Clear /\ UNCHANGED cacheFrame
    \/ ResetStats /\ UNCHANGED cacheFrame
    \/ Cleanup /\ UNCHANGED cacheFrame

SpecCache == Init /\ [][NextCache]_vars

(***************************************************************************)
(* The cache with a persistence adapter (interface PersistenceAdapter,     *)
(* lines 26-32).  The adapter keeps one row per key; a set of the adapter  *)
(* writes the row of its key when it fulfils, a delete removes it, a       *)
(* clear removes every row, and a get answers with the value of the row    *)
(* unless the row has expired (lines 262-266).  Any call of the adapter    *)
(* may reject instead.                                                     *)
(***************************************************************************)
Adapter == "adapter"
PersistKeys == {"key1"}

\* the adapters that can be attached: an empty one, and one that holds a row
\* written earlier
AdapterRows ==
    {NoRows, [NoRows EXCEPT !["key1"] = Row("value2", MaxNow + defaultTtlMs)]}

\* setPersistenceAdapter(adapter), lines 72-74
SetPersistenceAdapter(rows) ==
    /\ ~Persistent
    /\ persistenceAdapter' = Adapter
    /\ adapterStore' = rows
    /\ UNCHANGED <<cache, cacheStats, got, written, invalidated, ops, now, pendingPersistenceWrites,
                   writes, chained, removals, reads, failed, unhandled>>

PendingWrites == {id \in 1..Len(writes) : writes[id].state = "pending"}

\* The promise of write id settles and its reactions run: first the finally
\* callback registered when the write started (lines 136, 141), then, if the
\* write fulfilled, the then-callbacks of the sets that found it pending
\* (lines 133-137), each of which starts a write.  After a rejection those
\* callbacks never run, and the promises that then and finally returned
\* reject with no handler.
WriteSettles(id, ok) ==
    /\ id \in PendingWrites
    /\ LET w == writes[id]
           mine == SelectSeq(chained, LAMBDA c : c.after = id)
           next == IF ok THEN [i \in 1..Len(mine) |->
                                  NewWrite(mine[i].key, mine[i].value, mine[i].ttlMs, now)]
                   ELSE <<>>
       IN  /\ writes' = [writes EXCEPT ![id].state =
                             IF ok THEN "fulfilled" ELSE "rejected"] \o next
           /\ chained' = SelectSeq(chained, LAMBDA c : c.after # id)
           /\ pendingPersistenceWrites' =
                  [pendingPersistenceWrites EXCEPT
                      ![w.key] = IF next = <<>> THEN 0 ELSE Len(writes) + Len(next)]
           /\ adapterStore' = IF ok
                              THEN [adapterStore EXCEPT ![w.key] = Row(w.value, w.expiresAt)]
                              ELSE adapterStore
    /\ failed' = (failed \/ ~ok)
    /\ unhandled' = (unhandled \/ ~ok)
    /\ UNCHANGED <<cache, cacheStats, persistenceAdapter, got, written, invalidated, ops, now,
                   removals,
                   reads>>

\* adapter.delete(key) or adapter.clear() settles; a rejection is caught, lines 161, 169
RemovalSettles(r, ok) ==
    /\ r \in removals
    /\ removals' = removals \ {r}
    /\ adapterStore' = IF ~ok THEN adapterStore
                       ELSE IF r.kind = "clear" THEN NoRows
                       ELSE [adapterStore EXCEPT ![r.key] = NoRow]
    /\ failed' = (failed \/ ~ok)
    /\ UNCHANGED <<cache, cacheStats, persistenceAdapter, got, written, invalidated, ops, now,
                   pendingPersistenceWrites, writes, chained, reads, unhandled>>

\* the value adapter.get(key) answers with at time t, lines 262-268
Persisted(key, t) ==
    IF adapterStore[key] = NoRow THEN Null
    ELSE IF adapterStore[key].expiresAt < t THEN Null
    ELSE adapterStore[key].value

\* adapter.get(key) answers and the get(key) of r resumes, lines 81-89
ReadAnswered(r) ==
    /\ r \in reads
    /\ reads' = reads \ {r}
    /\ got' = [op |-> "get", key |-> r.key, result |-> Persisted(r.key, now)]
    /\ IF Persisted(r.key, now) = Null
       THEN /\ cacheStats' = [cacheStats EXCEPT !.misses = @ + 1]
            /\ adapterStore' = [adapterStore EXCEPT ![r.key] = NoRow]
            /\ UNCHANGED <<cache, writes, chained, pendingPersistenceWrites>>
       ELSE /\ cache' = Inserted(cache, r.key, Persisted(r.key, now), defaultTtlMs, now)
            /\ cacheStats' = [cacheStats EXCEPT
                                 !.hits = @ + 1,
                                 !.evictions = IF InsertEvicts(cache, r.key) THEN @ + 1 ELSE @]
            /\ Forward(r.key, Persisted(r.key, now), defaultTtlMs)
            /\ UNCHANGED adapterStore
    /\ UNCHANGED <<persistenceAdapter, written, invalidated, ops, now, removals, failed,
                   unhandled>>

\* adapter.get(key) rejects and so does the get(key) of r that awaits it, line 81
ReadRejected(r) ==
    /\ r \in reads
    /\ reads' = reads \ {r}
    /\ got' = [op |-> "get", key |-> r.key, result |-> "rejected"]
    /\ failed' = TRUE
    /\ UNCHANGED <<cache, cacheStats, persistenceAdapter, written, invalidated, ops, now,
                   adapterStore, pendingPersistenceWrites, writes, chained, removals,
                   unhandled>>

NextPersist ==
    \/ \E rows \in AdapterRows : SetPersistenceAdapter(rows) /\ UNCHANGED cacheFrame
    \/ \E d \in Elapse : CacheTick(d) /\ UNCHANGED workerSide
    \/ \E k \in PersistKeys : Get(k) /\ UNCHANGED cacheFrame
    \/ \E k \in PersistKeys, v \in CacheValues, t \in Ttls : Set(k, v, t) /\ UNCHANGED cacheFrame
    \/ \E k \in PersistKeys : Delete(k) /\ UNCHANGED cacheFrame
    \/ Clear /\ UNCHANGED cacheFrame
    \/ \E id \in PendingWrites, ok \in BOOLEAN : WriteSettles(id, ok) /\ UNCHANGED cacheFrame
    \/ \E r \in removals, ok \in BOOLEAN : RemovalSettles(r, ok) /\ UNCHANGED cacheFrame
    \/ \E r \in reads : ReadAnswered(r) /\ UNCHANGED cacheFrame
    \/ \E r \in reads : ReadRejected(r) /\ UNCHANGED cacheFrame

SpecPersist == Init /\ [][NextPersist]_vars

(***************************************************************************)
(* SpecInference: analyze and transcribe requests, one after the other     *)
(* (src/unnamed/part_010: withModelFallback, lines 41-53,                  *)
(* transcribeAudioServer, lines 79-152, analyzeFileServer, lines 154-293), *)
(* on the shared analysisCache, which has no persistence adapter, and the  *)
(* shared rate limiter.  Caching and rate limiting are enabled.  The       *)
(* audio of a transcription has been transcoded; an analysis has no        *)
(* audio to transcribe first.  What runs without an await between two      *)
(* steps takes no time.                                                    *)
(***************************************************************************)
Kinds == {"analyze", "transcribe"}
\* ANALYSIS_MODEL and TRANSCRIBE_MODEL, lines 9-11
PrimaryModel(kind) == IF kind = "analyze" THEN ProModel ELSE FlashModel
\* the default of the parameter fallbackModel, line 44
FallbackModel == ThinkingModel
\* createAnalysisCacheKey and createTranscriptionCacheKey, lines 55-69
KeyOf(kind) == IF kind = "analyze" THEN "key1" ELSE "key2"
\* estimateTokensForRequest(contentParts), line 253; a transcription passes none
EstimatesOf(kind) ==
    IF kind = "analyze" THEN {DefaultEstimatedTokens, HugeEstimate, 2 * HugeEstimate}
    ELSE {DefaultEstimatedTokens}
\* response.text
Responses == {"json", "", "not json"}
TranscriptionFailed == "[Transcription failed]"
EmptyAnalysis == "{}"
SyntaxError == "SyntaxError"

inferenceFrame == <<storeVars, workerVars, historyVars, mediaVars, execution>>

\* the request returns the value
Returned(inf, value) ==
    [inf EXCEPT !.pc = "done", !.settled = "fulfilled", !.result = value]

\* the request throws the error
Thrown(inf, error) ==
    [inf EXCEPT !.pc = "done", !.settled = "rejected", !.error = error]

\* a fallback that tries the fallback model again and again
FailedRetrying(inf, error) ==
    [inf EXCEPT !.pc = "retry", !.model = FallbackModel, !.failures = @ + 1]

\* the catch of withModelFallback, lines 48-52, or the rejection of the fallback
Failed(inf, error) ==
    IF inf.failures = 0 /\ FallbackModel # inf.model
    THEN [inf EXCEPT !.pc = "retry", !.model = FallbackModel, !.failures = 1]
    ELSE Thrown([inf EXCEPT !.failures = @ + 1], error)

\* where the request stands after a turn of waitForTokens, given the calls the
\* limiter then holds: the operation was invoked, the wait goes on, or
\* withRateLimit threw
AfterWait(inf, cs) ==
    IF \E c \in BagToSet(cs) : c.pc = "operation"
    THEN [inf EXCEPT !.pc = "operation", !.invoked = Append(@, inf.model)]
    ELSE IF cs = EmptyBag THEN Failed(inf, RateLimitError)
    ELSE [inf EXCEPT !.pc = "waiting"]

\* a request that does not look into the cache
RequestUncached(kind, estimate) ==
    /\ inference.pc \in {"idle", "done"}
    /\ inference.requests < MaxRequests
    /\ inference' = [NoInference EXCEPT !.kind = kind, !.key = KeyOf(kind),
                        !.model = PrimaryModel(kind), !.estimate = estimate,
                        !.settled = "pending", !.requests = inference.requests + 1,
                        !.pc = "start"]
    /\ UNCHANGED <<now, cacheVars, persistVars>>
    /\ UNCHANGED <<buckets, stats, calls, done, started>>

\* analyzeFileServer, lines 154-208, or transcribeAudioServer, lines 79-108, up to
\* the answer of the cache
Request(kind, estimate) ==
    /\ inference.pc \in {"idle", "done"}
    /\ inference.requests < MaxRequests
    /\ LET inf == [NoInference EXCEPT !.kind = kind, !.key = KeyOf(kind),
                      !.model = PrimaryModel(kind), !.estimate = estimate,
                      !.settled = "pending", !.requests = inference.requests + 1]
       IN  \/ /\ GetHit(KeyOf(kind))
              /\ inference' = Returned([inf EXCEPT !.fromCache = TRUE],
                                       Entry(cache, KeyOf(kind)).value)
           \/ /\ GetMiss(KeyOf(kind))
              /\ inference' = [inf EXCEPT !.pc = "start"]
    /\ UNCHANGED <<buckets, stats, calls, done, started>>

\* generator(chosenModel), lines 110-111, 255-256: withRateLimit is called and
\* runs up to its first sleep, to the invocation of the client, or to its throw
Generator ==
    /\ inference.pc \in {"start", "retry"}
    /\ started < MaxAttempts
    /\ started' = started + 1
    /\ WaitLoop(NewCall("withRateLimit", inference.model, inference.estimate,
                        DefaultMaxWaitMs), calls)
    /\ inference' = AfterWait(inference, calls')
    /\ UNCHANGED <<now, cacheVars, persistVars>>

\* the sleep of waitForTokens ends
GeneratorWakes(c) ==
    /\ inference.pc = "waiting"
    /\ Wake(c)
    /\ inference' = AfterWait(inference, calls')
    /\ UNCHANGED <<cacheVars, persistVars>>

\* what the request makes of response.text, lines 147, 281
ResultOf(kind, response) ==
    IF response # "" THEN response
    ELSE IF kind = "transcribe" THEN TranscriptionFailed ELSE EmptyAnalysis

\* JSON.parse(response.text) throws, line 281
Unparsable(kind, response) == kind = "analyze" /\ response = "not json"

\* the client rejects: withRateLimit consumes and rethrows, lines 236-239
ClientRejects(c) ==
    /\ inference.pc = "operation"
    /\ c \in Operating
    /\ buckets' = Consumed(buckets, c.model, c.estimatedTokens, now)
    /\ stats' = Counted(stats, c.model, c.estimatedTokens)
    /\ calls' = Without(c)
    /\ done' = [call |-> c, result |-> "Operation failed", at |-> now,
                operation |-> "Operation failed"]
    /\ inference' = Failed(inference, "Operation failed")
    /\ UNCHANGED <<now, started, cacheVars, persistVars>>

\* a request that returns the result without caching it
ClientAnswersUncached(c, response) ==
    /\ inference.pc = "operation"
    /\ c \in Operating
    /\ buckets' = Consumed(buckets, c.model, c.estimatedTokens, now)
    /\ stats' = Counted(stats, c.model, c.estimatedTokens)
    /\ calls' = Without(c)
    /\ done' = [call |-> c, result |-> "success", at |-> now, operation |-> "success"]
    /\ started' = started
    /\ IF Unparsable(inference.kind, response)
       THEN inference' = Thrown(inference, SyntaxError)
       ELSE inference' = Returned(inference, ResultOf(inference.kind, response))
    /\ UNCHANGED <<now, cacheVars, persistVars>>

\* the client answers: withRateLimit consumes and returns, lines 233-235, and the
\* request parses, caches and returns the result, lines 147-151, 281-292
ClientAnswers(c, response) ==
    /\ inference.pc = "operation"
    /\ c \in Operating
    /\ buckets' = Consumed(buckets, c.model, c.estimatedTokens, now)
    /\ stats' = Counted(stats, c.model, c.estimatedTokens)
    /\ calls' = Without(c)
    /\ done' = [call |-> c, result |-> "success", at |-> now, operation |-> "success"]
    /\ started' = started
    /\ IF Unparsable(inference.kind, response)
       THEN /\ inference' = Thrown(inference, SyntaxError)
            /\ UNCHANGED <<now, cacheVars, persistVars>>
       ELSE /\ inference' = Returned(inference, ResultOf(inference.kind, response))
            /\ Set(inference.key, ResultOf(inference.kind, response), CACHE_TTL_MS)

\* Date.now() moves on while the request sleeps, while the client works, and
\* between two requests
InferenceTick(d) ==
    /\ inference.pc \notin {"start", "retry"}
    /\ Tick(d)
    /\ UNCHANGED <<cacheVars, persistVars, inference>>

NextInference ==
    \/ \E k \in Kinds : \E e \in EstimatesOf(k) : Request(k, e) /\ UNCHANGED inferenceFrame
    \/ Generator /\ UNCHANGED inferenceFrame
    \/ \E c \in Waiting : GeneratorWakes(c) /\ UNCHANGED inferenceFrame
    \/ \E c \in Operating : ClientRejects(c) /\ UNCHANGED inferenceFrame
    \/ \E c \in Operating, r \in Responses : ClientAnswers(c, r) /\ UNCHANGED inferenceFrame
    \/ \E d \in {c.wake - now : c \in Waiting} : InferenceTick(d) /\ UNCHANGED inferenceFrame
    \/ \E d \in Elapse : Waiting = {} /\ InferenceTick(d) /\ UNCHANGED inferenceFrame

SpecInference == Init /\ [][NextInference]_vars

(***************************************************************************)
(* Part 4: cache keys, LRUCache.createKey (src/lib/cache.ts, lines 67-70). *)
(* A string is the sequence of its characters; a part is a string, null    *)
(* or undefined.                                                           *)
(***************************************************************************)
keyFrame == <<workerSide, limiterVars, cacheVars, persistVars, transcode, download, flowVars>>

Alphabet == {"a", ":"}
Texts == UNION {[1..n -> Alphabet] : n \in 0..MaxText}
NullText == <<"n", "u", "l", "l">>
UndefinedText == <<"u", "n", "d", "e", "f", "i", "n", "e", "d">>

Str(text) == [type |-> "string", text |-> text]
JsNull == [type |-> "null", text |-> <<>>]
JsUndefined == [type |-> "undefined", text |-> <<>>]
Parts == {Str(t) : t \in Texts \cup {NullText, UndefinedText}} \cup {JsNull, JsUndefined}
PartLists == UNION {[1..n -> Parts] : n \in 1..MaxParts}

\* p === null ? 'null' : p === undefined ? 'undefined' : String(p), line 68
normalized(p) ==
    IF p.type = "null" THEN NullText
    ELSE IF p.type = "undefined" THEN UndefinedText
    ELSE p.text

\* texts.join(':'), line 69
RECURSIVE join(_)
join(texts) ==
    IF texts = <<>> THEN <<>>
    ELSE IF Len(texts) = 1 THEN texts[1]
    ELSE texts[1] \o <<":">> \o join(Tail(texts))

\* createHash('sha256').update(text).digest('hex'), taken as collision-free:
\* the digest determines the text
sha256(text) == [digest |-> text]

\* createKey(...parts), lines 67-70
createKey(parts) == sha256(join([i \in 1..Len(parts) |-> normalized(parts[i])]))

\* a call of createKey
CreateKey(parts) ==
    /\ Cardinality(made) < MaxMade
    /\ made' = made \cup {[parts |-> parts, key |-> createKey(parts)]}

NextKey ==
    \E parts \in PartLists : CreateKey(parts) /\ UNCHANGED keyFrame

SpecKey == Init /\ [][NextKey]_vars

(***************************************************************************)
(* Part 5: transcodeToMonoWav (src/lib/mediaTranscoder.ts, lines 54-129).  *)
(* The call validates its input, spawns the subprocess and returns a       *)
(* promise; each event of the subprocess runs its handler in a step of its *)
(* own.  Buffers are modelled by their sizes in bytes, strings by their    *)
(* characters.  A subprocess that could not be spawned writes no output.   *)
(***************************************************************************)
transcoderFrame == <<workerSide, limiterVars, cacheVars, persistVars, made, download, flowVars>>

MAX_MEDIA_BYTES == 25 * 1024 * 1024
MAX_AUDIO_BYTES == 10 * 1024 * 1024

AudioPrefix == <<"a", "u", "d", "i", "o", "/">>
VideoPrefix == <<"v", "i", "d", "e", "o", "/">>
AudioWav == AudioPrefix \o <<"w", "a", "v">>
AudioMpeg == AudioPrefix \o <<"m", "p", "e", "g">>
VideoMp4 == VideoPrefix \o <<"m", "p", "4">>
TextPlain == <<"t", "e", "x", "t", "/", "p", "l", "a", "i", "n">>
MimeTypes == {AudioMpeg, VideoMp4, TextPlain, <<"a", "u", "d", "i", "o">>}

InputSizes == {SmallInput, MAX_AUDIO_BYTES + 1, MAX_MEDIA_BYTES, MAX_MEDIA_BYTES + 1}
SizeLimits == {MAX_AUDIO_BYTES, SmallLimit}
Chunks == {ChunkBytes, MAX_AUDIO_BYTES}
SpawnErrors == {"ENOENT", "EACCES"}
SignalCode == 0 - 1

\* String.prototype.startsWith
startsWith(text, prefix) ==
    /\ Len(text) >= Len(prefix)
    /\ SubSeq(text, 1, Len(prefix)) = prefix

\* validateMediaSize(bytes, limit, label) throws, lines 20-24
TooLarge(bytes, limit) == bytes > limit
SizeError(label) == <<label, "exceeds maximum size">>
TextError(text) == <<text, "">>

\* resolveOnce and rejectOnce, lines 66-75
resolveOnce(t, bytes, audioMimeType, fromInput) ==
    IF t.settled # "pending" THEN t
    ELSE [t EXCEPT !.settled = "resolved", !.audioBytes = bytes,
                   !.audioMimeType = audioMimeType, !.fromInput = fromInput]

rejectOnce(t, error) ==
    IF t.settled # "pending" THEN t
    ELSE [t EXCEPT !.settled = "rejected", !.error = error]

\* a fallback that returns the input whatever its size
fallbackUnchecked(t) ==
    IF ~startsWith(t.mimeType, AudioPrefix)
    THEN rejectOnce(t, TextError("FFmpeg is required to extract audio from video files."))
    ELSE resolveOnce(t, t.inputBytes, t.mimeType, TRUE)

\* fallbackToInput, lines 76-83; the throw of validateMediaSize leaves the handler
fallbackToInput(t) ==
    IF ~startsWith(t.mimeType, AudioPrefix)
    THEN rejectOnce(t, TextError("FFmpeg is required to extract audio from video files."))
    ELSE IF TooLarge(t.inputBytes, t.sizeLimit)
    THEN [t EXCEPT !.uncaught = TRUE]
    ELSE resolveOnce(t, t.inputBytes, t.mimeType, TRUE)

\* the call with its arguments
Called3(inputBytes, mimeType, sizeLimit) ==
    [NoTranscode EXCEPT !.phase = "called", !.inputBytes = inputBytes,
                        !.mimeType = mimeType, !.sizeLimit = sizeLimit]

\* a call that spawns the subprocess before it validates
TranscodeSpawningFirst(inputBytes, mimeType, sizeLimit) ==
    /\ transcode.phase = "idle"
    /\ LET t == [Called3(inputBytes, mimeType, sizeLimit) EXCEPT !.spawned = TRUE]
       IN  transcode' =
               IF TooLarge(inputBytes, MAX_MEDIA_BYTES)
               THEN [t EXCEPT !.settled = "rejected", !.error = SizeError("Input media")]
               ELSE IF ~startsWith(mimeType, AudioPrefix) /\ ~startsWith(mimeType, VideoPrefix)
               THEN [t EXCEPT !.settled = "rejected",
                              !.error = TextError("Invalid file type.")]
               ELSE [t EXCEPT !.settled = "pending"]

\* transcodeToMonoWav({inputBuffer, mimeType, sizeLimit}) up to its return, lines 54-65, 126-128
TranscodeToMonoWav(inputBytes, mimeType, sizeLimit) ==
    /\ transcode.phase = "idle"
    /\ LET t == Called3(inputBytes, mimeType, sizeLimit)
       IN  transcode' =
               IF TooLarge(inputBytes, MAX_MEDIA_BYTES)
               THEN [t EXCEPT !.settled = "rejected", !.error = SizeError("Input media")]
               ELSE IF ~startsWith(mimeType, AudioPrefix) /\ ~startsWith(mimeType, VideoPrefix)
               THEN [t EXCEPT !.settled = "rejected",
                              !.error = TextError("Invalid file type.")]
               ELSE [t EXCEPT !.spawned = TRUE, !.settled = "pending"]

\* the subprocess exists and has not closed
Running == transcode.spawned /\ ~transcode.closed

\* ffmpeg.stdout.on('data'), lines 88-98
StdoutData(chunk) ==
    /\ Running
    /\ ~transcode.errored \/ transcode.killed
    /\ transcode.chunks < MaxChunks
    /\ LET t == [transcode EXCEPT !.stdoutSize = @ + chunk, !.chunks = @ + 1]
       IN  transcode' =
               IF TooLarge(t.stdoutSize, t.sizeLimit)
               THEN rejectOnce([t EXCEPT !.killed = TRUE], SizeError("Downsampled audio"))
               ELSE t

\* ffmpeg.on('error') for a subprocess that could not be spawned, lines 104-111
SpawnError(code) ==
    /\ Running
    /\ ~transcode.errored
    /\ transcode.chunks = 0
    /\ LET t == [transcode EXCEPT !.errored = TRUE]
       IN  transcode' = IF code = "ENOENT" THEN fallbackToInput(t)
                        ELSE rejectOnce(t, TextError(code))

\* ffmpeg.on('error') for a subprocess that could not be killed, lines 104-111
KillError ==
    /\ Running
    /\ ~transcode.errored
    /\ transcode.killed
    /\ transcode' = rejectOnce([transcode EXCEPT !.errored = TRUE], TextError("EPERM"))

\* the exit codes close can report: null after a signal
ExitCodes == IF transcode.killed THEN {0, 1, SignalCode} ELSE {0, 1}

\* ffmpeg.on('close'), lines 113-124; the throw of validateMediaSize leaves the handler
Close(code) ==
    /\ Running
    /\ LET t == [transcode EXCEPT !.closed = TRUE]
       IN  transcode' =
               IF code # 0 THEN rejectOnce(t, TextError("stderr"))
               ELSE IF TooLarge(t.stdoutSize, t.sizeLimit) THEN [t EXCEPT !.uncaught = TRUE]
               ELSE resolveOnce(t, t.stdoutSize, AudioWav, FALSE)

NextTranscode ==
    \/ \E b \in InputSizes, m \in MimeTypes, l \in SizeLimits :
          TranscodeToMonoWav(b, m, l) /\ UNCHANGED transcoderFrame
    \/ \E chunk \in Chunks : StdoutData(chunk) /\ UNCHANGED transcoderFrame
    \/ \E code \in SpawnErrors : SpawnError(code) /\ UNCHANGED transcoderFrame
    \/ KillError /\ UNCHANGED transcoderFrame
    \/ \E code \in ExitCodes : Close(code) /\ UNCHANGED transcoderFrame

SpecTranscode == Init /\ [][NextTranscode]_vars

(***************************************************************************)
(* downloadMediaBuffer (src/lib/mediaTranscoder.ts, lines 26-52).  The     *)
(* call parses the URL and checks its scheme, awaits fetch, then awaits    *)
(* one read of the body after the other.  URLs are sequences of            *)
(* characters, chunks are their lengths in bytes.                          *)
(***************************************************************************)
downloadFrame == <<workerSide, limiterVars, cacheVars, persistVars, made, transcode, flowVars>>

HttpUrl == <<"h", "t", "t", "p", ":", "/", "/", "x">>
UpperHttpsUrl == <<"H", "T", "T", "P", "S", ":", "/", "/", "x">>
FtpUrl == <<"f", "t", "p", ":", "/", "/", "x">>
FileUrl == <<"f", "i", "l", "e", ":", "/", "/", "/", "x">>
HttpxUrl == <<"h", "t", "t", "p", "x", ":", "/", "/", "x">>
RelativeUrl == <<"/", "x">>
MediaUrls == {HttpUrl, UpperHttpsUrl, FtpUrl, FileUrl, HttpxUrl, RelativeUrl}
DownloadLimits == {MAX_MEDIA_BYTES, SmallLimit}
BodyChunks == {ChunkBytes, SmallLimit - ChunkBytes, MAX_MEDIA_BYTES}

\* ASCII lower case of the letters of the schemes
Lower(c) ==
    IF c = "H" THEN "h" ELSE IF c = "T" THEN "t" ELSE IF c = "P" THEN "p"
    ELSE IF c = "S" THEN "s" ELSE c

Letters == {"h", "t", "p", "s", "f", "i", "l", "e", "x"}

\* the position of the first colon, 0 if there is none
Colon(text) ==
    IF \E i \in 1..Len(text) : text[i] = ":"
    THEN CHOOSE i \in 1..Len(text) :
             text[i] = ":" /\ \A j \in 1..(i - 1) : text[j] # ":"
    ELSE 0

\* new URL(mediaUrl) throws unless the text starts with a scheme, line 27
ParsesAsUrl(text) ==
    /\ Colon(text) > 1
    /\ \A j \in 1..(Colon(text) - 1) : Lower(text[j]) \in Letters

\* url.protocol: the scheme in lower case with its colon
protocol(text) == [j \in 1..Colon(text) |-> Lower(text[j])]

AllowedProtocols == {<<"h", "t", "t", "p", ":">>, <<"h", "t", "t", "p", "s", ":">>}

\* the call with its arguments
Called4(mediaUrl, sizeLimit) ==
    [NoDownload EXCEPT !.phase = "called", !.mediaUrl = mediaUrl, !.sizeLimit = sizeLimit]

\* a call that fetches whatever the scheme
DownloadAnyScheme(mediaUrl, sizeLimit) ==
    /\ download.phase = "idle"
    /\ LET d == Called4(mediaUrl, sizeLimit)
       IN  download' =
               IF ~ParsesAsUrl(mediaUrl)
               THEN [d EXCEPT !.settled = "rejected", !.error = TextError("Invalid URL")]
               ELSE [d EXCEPT !.phase = "fetching", !.requested = TRUE,
                              !.settled = "pending"]

\* downloadMediaBuffer(mediaUrl, sizeLimit) up to the await of fetch, lines 26-32
DownloadMediaBuffer(mediaUrl, sizeLimit) ==
    /\ download.phase = "idle"
    /\ LET d == Called4(mediaUrl, sizeLimit)
       IN  download' =
               IF ~ParsesAsUrl(mediaUrl)
               THEN [d EXCEPT !.settled = "rejected", !.error = TextError("Invalid URL")]
               ELSE IF protocol(mediaUrl) \notin AllowedProtocols
               THEN [d EXCEPT !.settled = "rejected",
                              !.error = TextError("Only http/https media URLs are allowed")]
               ELSE [d EXCEPT !.phase = "fetching", !.requested = TRUE,
                              !.settled = "pending"]

FetchOutcomes == {"ok", "not ok", "no body", "network error"}

\* fetch settles, lines 32-39
FetchSettles(outcome) ==
    /\ download.phase = "fetching"
    /\ download' =
           IF outcome = "ok" THEN [download EXCEPT !.phase = "reading"]
           ELSE [download EXCEPT !.phase = "called", !.settled = "rejected",
                                 !.error = TextError(outcome)]

\* a read that keeps the chunk whatever the total
ReadChunkUnchecked(chunk) ==
    /\ download.phase = "reading"
    /\ download.readCalls < MaxReads
    /\ download' = [download EXCEPT !.readCalls = @ + 1, !.downloaded = @ + chunk,
                                    !.kept = @ + chunk]

\* reader.read() answers with a chunk, lines 41-45
ReadChunk(chunk) ==
    /\ download.phase = "reading"
    /\ download.readCalls < MaxReads
    /\ LET d == [download EXCEPT !.readCalls = @ + 1, !.downloaded = @ + chunk]
       IN  download' =
               IF TooLarge(d.downloaded, d.sizeLimit)
               THEN [d EXCEPT !.phase = "called", !.settled = "rejected",
                              !.error = SizeError("Input media")]
               ELSE [d EXCEPT !.kept = @ + chunk]

\* reader.read() answers done, lines 41-42, 48-51
ReadDone ==
    /\ download.phase = "reading"
    /\ download' = [download EXCEPT !.phase = "called", !.readCalls = @ + 1,
                                    !.settled = "resolved", !.bufferBytes = download.kept]

\* reader.read() rejects, line 41
ReadFails ==
    /\ download.phase = "reading"
    /\ download' = [download EXCEPT !.phase = "called", !.readCalls = @ + 1,
                                    !.settled = "rejected",
                                    !.error = TextError("network error")]

NextDownload ==
    \/ \E u \in MediaUrls, l \in DownloadLimits :
          DownloadMediaBuffer(u, l) /\ UNCHANGED downloadFrame
    \/ \E o \in FetchOutcomes : FetchSettles(o) /\ UNCHANGED downloadFrame
    \/ \E chunk \in BodyChunks : ReadChunk(chunk) /\ UNCHANGED downloadFrame
    \/ ReadDone /\ UNCHANGED downloadFrame
    \/ ReadFails /\ UNCHANGED downloadFrame

SpecDownload == Init /\ [][NextDownload]_vars

(***************************************************************************)
(* Properties of the job worker.                                           *)
(***************************************************************************)
\* the call x of processJob in worker w ends its stage in this step
Leaves(w, x) == CopiesIn(x, execs'[w]) < CopiesIn(x, execs[w])

LegalTransitions ==
    { <<"pending", "processing">>, <<"processing", "complete">>,
      <<"processing", "failed">>, <<"processing", "pending">> }

\* C1: every change of a job's status in the store is pending->processing,
\* processing->complete, processing->failed or processing->pending; in particular a
\* complete or failed job never changes status again.
C1_StatusTransitions ==
    [][\A j \in DOMAIN jobs :
          jobs'[j].status # jobs[j].status =>
             <<jobs[j].status, jobs'[j].status>> \in LegalTransitions]_vars

\* the calls of processJob, over all workers, that hold job j and have not yet had
\* its outcome written to the job row
Holders(j) ==
    {<<w, x>> \in Workers \X UNION {BagToSet(execs[v]) : v \in Workers} :
        /\ BagIn(x, execs[w])
        /\ x.job.id = j
        /\ x.pc \in {"process", "complete", "failjob"}}

\* C2: of two workers that run acquireJob concurrently on one pending job only one
\* gets the job, so no job is being processed by two workers at the same time.
C2_OneClaimWinner ==
    \A j \in Created : \A h1, h2 \in Holders(j) : h1[1] = h2[1]

\* C3: with a store that answers every request, a job all of whose executions throw is
\* executed max_attempts times and no more, and then rests in status failed with
\* attempts = max_attempts, the thrown message as error_message and its linked
\* document failed.
C3_RetryBound ==
    \A j \in Created :
       (~storeErrors /\ thrown[j] # Succeeded) =>
          /\ thrown[j] <= jobs[j].max_attempts
          /\ jobs[j].status = "failed" =>
                /\ thrown[j] = jobs[j].max_attempts
                /\ jobs[j].attempts = jobs[j].max_attempts
                /\ jobs[j].error_message # NoError
                /\ (InFlight(j) = 0 /\ jobs[j].document_id # NoDoc) =>
                      documents[jobs[j].document_id].status = "failed"

\* C4: with a store that answers every request, the failure handling of an execution
\* increases the stored attempts of its job by exactly one and leaves the job pending
\* if the new attempts is below max_attempts, failed otherwise.
C4_AttemptsCountFailures ==
    [][\A w \in Workers : \A x \in BagToSet(execs[w]) :
          (x.pc = "failjob" /\ Leaves(w, x) /\ ~storeErrors') =>
             /\ jobs'[x.job.id].attempts = jobs[x.job.id].attempts + 1
             /\ jobs'[x.job.id].status =
                   (IF jobs'[x.job.id].attempts < jobs'[x.job.id].max_attempts
                    THEN "pending" ELSE "failed")]_vars

\* C5: a job that failed with a size-exceeded error is never returned to pending.
C5_SizeExceededIsFinal ==
    \A j \in Created :
       jobs[j].error_message = SizeExceeded => jobs[j].status # "pending"

\* C6: processJob reports a job as completed (onComplete) only if its final status
\* update was applied, so that the row is complete when the callback runs.
C6_CompleteOnlyIfWritten ==
    [][\A w \in Workers : \A x \in BagToSet(execs[w]) :
          (x.pc = "complete" /\ Leaves(w, x)) =>
             jobs'[x.job.id].status = "complete"]_vars

\* the select of a poll() of worker w returns row j in this step
Selects(w, j) ==
    LET a == [pc |-> "update", job |-> Snapshot(j)]
    IN CopiesIn(a, polls'[w]) > CopiesIn(a, polls[w])

\* C7: when acquireJob selects a job, no pending job of the store has a higher
\* priority, and none of equal priority an earlier created_at.
C7_PriorityThenFifo ==
    [][\A w \in Workers : \A j \in Created :
          Selects(w, j) =>
             /\ jobs[j].status = "pending"
             /\ \A k \in Pending(jobs) : ~Before(jobs, k, j)]_vars

\* a poll() holds a selected job that went before a job which has been pending, and
\* never claimed, since before the selected one was inserted
C7_Witness ==
    \E w \in Workers : \E a \in BagToSet(polls[w]) : \E k \in Pending(jobs) :
       /\ a.pc = "update"
       /\ k # a.job.id
       /\ jobs[a.job.id].priority > jobs[k].priority
       /\ jobs[a.job.id].created_at > jobs[k].created_at
       /\ jobs[k].attempts = 0 /\ thrown[k] = 0 /\ InFlight(k) = 0

\* C8: a worker never has more than maxConcurrentJobs jobs claimed and not finished.
C8_AtMostMaxConcurrentJobs ==
    \A w \in Workers : BagCardinality(execs[w]) <= maxConcurrentJobs

\* C9: once the promise of stopGracefully() has resolved, and until start() is called
\* again, the worker processes no job.
C9_QuiescentAfterGracefulStop ==
    \A w \in Workers : graceful[w] = "resolved" => execs[w] = EmptyBag

\* C10: a worker on which only start() is called, any number of times, has exactly one
\* poll loop (one scheduled or in-flight poll).
C10_StartIdempotent ==
    \A w \in Workers : Loops(w) = (IF isRunning[w] THEN 1 ELSE 0)

C10_Witness ==
    \E w \in Workers : redundantStart[w] /\ isRunning[w] /\ Loops(w) = 1


(***************************************************************************)
(* SpecLive: one worker, started once and never stopped, under fair        *)
(* scheduling.  Every request to the store is answered, every timer        *)
(* fires and every processor returns or throws: each step of the worker    *)
(* that is enabled is eventually taken.  Until the store answers one      *)
(* update of a job's status (lines 381-387, 396-413) with an error,        *)
(* every answer is a success.                                              *)
(***************************************************************************)
NextLive ==
    \/ CreateJob(NumJobs) /\ UNCHANGED serviceVars
    \/ ~isRunning[Solo] /\ Start(Solo) /\ UNCHANGED serviceVars
    \/ TimerFire(Solo) /\ UNCHANGED serviceVars
    \/ AcquireSelect(Solo) /\ storeErrors' = storeErrors /\ UNCHANGED serviceVars
    \/ AcquireUpdate(Solo) /\ storeErrors' = storeErrors /\ UNCHANGED serviceVars
    \/ ProcessJob(Solo) /\ storeErrors' = storeErrors /\ UNCHANGED serviceVars
    \/ MarkJobComplete(Solo) /\ UNCHANGED serviceVars
    \/ HandleJobFailure(Solo) /\ UNCHANGED serviceVars
    \/ FailDocument(Solo) /\ storeErrors' = storeErrors /\ UNCHANGED serviceVars

LiveFairness ==
    /\ WF_vars(TimerFire(Solo) /\ UNCHANGED serviceVars)
    /\ WF_vars(AcquireSelect(Solo) /\ storeErrors' = storeErrors /\ UNCHANGED serviceVars)
    /\ WF_vars(AcquireUpdate(Solo) /\ storeErrors' = storeErrors /\ UNCHANGED serviceVars)
    /\ WF_vars(ProcessJob(Solo) /\ storeErrors' = storeErrors /\ UNCHANGED serviceVars)
    /\ WF_vars(MarkJobComplete(Solo) /\ UNCHANGED serviceVars)
    /\ WF_vars(HandleJobFailure(Solo) /\ UNCHANGED serviceVars)
    /\ WF_vars(FailDocument(Solo) /\ storeErrors' = storeErrors /\ UNCHANGED serviceVars)

SpecLive == Init /\ [][NextLive]_vars /\ LiveFairness

Settled(j) == j \in Created /\ jobs[j].status \in {"complete", "failed"}

\* C11: with one running worker, a store that answers every request and processors
\* that always return or throw, every pending job eventually becomes complete or
\* failed, whatever happens to the jobs ahead of it.
C11_EveryJobSettles ==
    \A j \in JobIds :
        (isRunning[Solo] /\ j \in Created /\ jobs[j].status = "pending") ~> Settled(j)

(***************************************************************************)
(* Properties of the rate limiter.                                         *)
(***************************************************************************)
WithinCapacity(model) ==
    /\ AtLeast(buckets[model].requestTokens, 0)
    /\ AtLeast(RequestCapacity(model), buckets[model].requestTokens)
    /\ AtLeast(buckets[model].tokenTokens, 0)
    /\ AtLeast(TokenCapacity(model), buckets[model].tokenTokens)

\* C12: for every resource key that has a bucket, the request tokens are a number
\* in [0, requestsPerMinute] and the unit tokens a number in [0, tokensPerMinute],
\* whatever calls were made and however much time passed.
C12_TokensWithinCapacity == \A model \in DOMAIN buckets : WithinCapacity(model)

\* the same for the keys that name no inherited member of the configuration object
ListedAndDefaultWithinCapacity ==
    \A model \in DOMAIN buckets \ InheritedNames : WithinCapacity(model)

\* x less y, clamped at zero
Deducted(x, y) == IF IsNaN(x) THEN NaN ELSE IF x >= y THEN x - y ELSE 0

\* the bucket is as it was created
IsFull(bucket, model) ==
    /\ bucket.requestTokens = RequestCapacity(model)
    /\ bucket.tokenTokens = TokenCapacity(model)

\* C13: consume(key, u) on a bucket that holds, after its refill, r request tokens
\* and t unit tokens leaves max(0, r - 1) request tokens and max(0, t - u) unit
\* tokens; one consume(key, 1000) on the full bucket of 10 requests and 1,000,000
\* units is reported by getStats as availableRequests = 9, availableTokens = 999000.
C13_ConsumeDeducts ==
    [][\A k \in Keys, u \in Estimates :
          Consume(k, u) =>
             LET b == Refilled(buckets, k, now)[k]
             IN  /\ buckets'[k].requestTokens = Deducted(b.requestTokens, RequestScale)
                 /\ buckets'[k].tokenTokens = Deducted(b.tokenTokens, u * TokenScale)
                 /\ (k = ProModel /\ u = 1000 /\ IsFull(b, k)) =>
                       /\ getStats(ProModel)'.availableRequests = 9
                       /\ getStats(ProModel)'.availableTokens = 999000]_vars

C13_Witness ==
    /\ stats[ProModel].requests = 1
    /\ stats[ProModel].tokens = 1000
    /\ getStats(ProModel).availableRequests = 9
    /\ getStats(ProModel).availableTokens = 999000

\* what a budget of x gains in ms milliseconds, capped at its capacity
Gained(x, capacity, ms) ==
    IF IsNaN(x) \/ IsNaN(capacity) THEN NaN
    ELSE LET sum == x + (capacity \div MsPerMinute) * ms
         IN  IF sum > capacity THEN capacity ELSE sum

NotDecreased(before, after) == IsNaN(before) \/ IsNaN(after) \/ after >= before

\* what a call that refills the bucket of k does to it
RefillStep(k, e) ==
    (CanProceed(k, e) /\ k \in DOMAIN buckets) =>
       LET b == buckets[k]
           a == buckets'[k]
           elapsedMs == now - b.lastRefill
       IN  /\ a.requestTokens = Gained(b.requestTokens, RequestCapacity(k), elapsedMs)
           /\ a.tokenTokens = Gained(b.tokenTokens, TokenCapacity(k), elapsedMs)
           /\ NotDecreased(b.requestTokens, a.requestTokens)
           /\ NotDecreased(b.tokenTokens, a.tokenTokens)
           /\ elapsedMs >= MsPerMinute => IsFull(a, k)

\* a bucket that no call has touched for a minute is reported full
FullAfterIdleMinute ==
    \A k \in DOMAIN buckets \ InheritedNames :
        now - buckets[k].lastRefill >= MsPerMinute =>
            /\ getStats(k).availableRequests = getLimits(k).requestsPerMinute
            /\ getStats(k).availableTokens = getLimits(k).tokensPerMinute

\* C14: a refill after elapsedMs ms adds capacity * elapsedMs / 60000 to each of the
\* two budgets, capped at the capacity, and never decreases a budget; a bucket
\* drained by consume and left idle for 60000 ms holds exactly its capacity again.
C14_RefillProportionalAndCapped ==
    [][/\ \A k \in Keys, e \in Estimates : RefillStep(k, e)
       /\ FullAfterIdleMinute']_vars

\* the part of C14 about the calls that refill
RefillProportionalAndCappedWhenCalled ==
    [][\A k \in Keys, e \in Estimates : RefillStep(k, e)]_vars

\* a bucket emptied of its unit tokens by consume is full again when canProceed
\* is called a minute later
RefilledAfterIdleMinute ==
    /\ UnlistedModel \in DOMAIN buckets
    /\ stats[UnlistedModel].tokens >= DefaultLimits.tokensPerMinute
    /\ buckets[UnlistedModel].lastRefill >= MsPerMinute
    /\ IsFull(buckets[UnlistedModel], UnlistedModel)
    /\ done.call.kind = "canProceed"
    /\ done.call.model = UnlistedModel

\* C18: canProceed(key, estimatedTokens) returns in the turn of its call, refills the
\* bucket for the elapsed time and deducts nothing, and returns true exactly when
\* the refilled bucket holds at least 1 request token and estimatedTokens unit
\* tokens.
C18_CanProceedOnlyChecks ==
    [][\A k \in Keys, e \in Estimates :
          CanProceed(k, e) =>
             LET b == Refilled(buckets, k, now)[k]
             IN  /\ done'.result = (/\ AtLeast(b.requestTokens, RequestScale)
                                    /\ AtLeast(b.tokenTokens, e * TokenScale))
                 /\ buckets'[k] = b
                 /\ k \in DOMAIN buckets =>
                       /\ NotDecreased(buckets[k].requestTokens, buckets'[k].requestTokens)
                       /\ NotDecreased(buckets[k].tokenTokens, buckets'[k].tokenTokens)
                 /\ k \in DOMAIN stats => stats'[k] = stats[k]
                 /\ calls' = calls]_vars

\* canProceed has refused a request on a bucket that holds numbers
C18_Witness ==
    /\ done.call.kind = "canProceed"
    /\ done.result = FALSE
    /\ done.call.model \notin InheritedNames
    /\ stats[done.call.model].requests > 0

OthersUntouched(k) ==
    /\ \A k2 \in DOMAIN buckets \ {k} : k2 \in DOMAIN buckets' /\ buckets'[k2] = buckets[k2]
    /\ \A k2 \in DOMAIN stats \ {k} : k2 \in DOMAIN stats' /\ stats'[k2] = stats[k2]
    /\ DOMAIN buckets' = DOMAIN buckets \cup {k}

DefaultBucket(t) ==
    [requestTokens |-> DefaultLimits.requestsPerMinute * RequestScale,
     tokenTokens |-> DefaultLimits.tokensPerMinute * TokenScale,
     lastRefill |-> t]

FirstUseOfUnconfigured(k) ==
    (k \notin DOMAIN ConfigModels /\ k \notin DOMAIN buckets) =>
        /\ buckets'[k] = DefaultBucket(now)
        /\ stats'[k] = NoStats

\* C19: a call on key k leaves the bucket and the statistics of every other key as
\* they were, and the first use of a key without configured limits creates a full
\* bucket with the default limits.
C19_IndependentBuckets ==
    [][\A k \in Keys, e \in Estimates :
          /\ (CanProceed(k, e) \/ Consume(k, e)) => OthersUntouched(k)
          /\ CanProceed(k, e) => FirstUseOfUnconfigured(k)]_vars

\* the same for the keys that name no inherited member of the configuration object
IndependentBucketsOfOrdinaryKeys ==
    [][\A k \in Keys \ InheritedNames, e \in Estimates :
          /\ (CanProceed(k, e) \/ Consume(k, e)) => OthersUntouched(k)
          /\ CanProceed(k, e) => FirstUseOfUnconfigured(k)]_vars

(***************************************************************************)
(* Properties of waitForTokens and withRateLimit.                          *)
(***************************************************************************)
\* a call of the given kind returns to its caller in this step
Returns(kind) ==
    /\ done'.call.kind = kind
    /\ \/ started' # started /\ calls' = calls
       \/ BagCardinality(calls') < BagCardinality(calls)

HoldsEnough(bucket, estimatedTokens) ==
    /\ AtLeast(bucket.requestTokens, RequestScale)
    /\ AtLeast(bucket.tokenTokens, estimatedTokens * TokenScale)

WaitReturnsRight ==
    Returns("waitForTokens") =>
        LET c == done'.call
            waited == now - c.startTime
        IN  /\ done'.at = now
            /\ done'.result \in BOOLEAN
            /\ done'.result =>
                  /\ buckets'[c.model] = Refilled(buckets, c.model, now)[c.model]
                  /\ HoldsEnough(buckets'[c.model], c.estimatedTokens)
            /\ ~done'.result =>
                  /\ waited >= c.maxWaitMs
                  /\ waited - c.maxWaitMs <= MaxSleepMs

\* the records the step puts into calls in the place of c
Replacing(c) == BagToSet(calls' (-) Without(c))

\* a call that wakes returns, goes on to its operation, or sleeps again until a
\* strictly later instant, at most MaxSleepMs away
SleepsAdvance ==
    \A c \in Waiting :
        Wake(c) =>
            \A c2 \in Replacing(c) :
                \/ c2 = [c EXCEPT !.pc = "operation"]
                \/ /\ c2 = [c EXCEPT !.wake = c2.wake]
                   /\ c2.wake > c.wake
                   /\ c2.wake <= c.wake + MaxSleepMs

\* no call sleeps beyond maxWaitMs plus one sleep
SleepsBounded ==
    \A c \in Waiting :
        /\ c.wake >= now
        /\ c.wake - c.startTime < c.maxWaitMs + MaxSleepMs

\* C15: waitForTokens terminates: each sleep ends strictly later than the one
\* before and none ends later than maxWaitMs plus one sleep of at most 5000 ms
\* after the call; it returns true only when the refilled bucket holds 1 request
\* token and estimatedTokens unit tokens, and false only once maxWaitMs has
\* elapsed, at most one sleep late, also for an estimate above the capacity.
C15_WaitTerminates ==
    [][WaitReturnsRight /\ SleepsAdvance /\ SleepsBounded']_vars

\* a wait for more than the bucket can ever hold has returned false, late
C15_Witness ==
    /\ done.call.kind = "waitForTokens"
    /\ done.call.model = UnlistedModel
    /\ done.call.estimatedTokens > DefaultLimits.tokensPerMinute
    /\ done.result = FALSE
    /\ done.at > done.call.startTime + done.call.maxWaitMs

\* C16: an operation that withRateLimit has invoked is charged exactly once, when
\* it resolves or rejects: one request and estimatedTokens units on the counters
\* and the bucket of its key, and its result or error goes to the caller as it is;
\* the counters move in no step other than a consume of some caller.
C16_ChargedExactlyOnce ==
    [][/\ \A c \in Operating, o \in OperationOutcomes :
             OperationSettles(c, o) =>
                /\ stats'[c.model].requests = stats[c.model].requests + 1
                /\ stats'[c.model].tokens = stats[c.model].tokens + c.estimatedTokens
                /\ buckets' = Consumed(buckets, c.model, c.estimatedTokens, now)
                /\ done'.call = c
                /\ done'.operation = o
                /\ done'.result = o
                /\ calls' = Without(c)
       /\ TotalRequests(stats') # TotalRequests(stats) =>
             \/ \E k \in Keys, u \in Estimates : Consume(k, u)
             \/ \E c \in Operating, o \in OperationOutcomes : OperationSettles(c, o)]_vars

\* an operation that rejected has been charged and its error passed on
C16_Witness ==
    /\ done.call.kind = "withRateLimit"
    /\ done.operation = "Operation failed"
    /\ done.result = "Operation failed"
    /\ stats[done.call.model].requests >= 1
    /\ stats[done.call.model].tokens >= done.call.estimatedTokens

\* C17: when the wait of withRateLimit times out, withRateLimit throws the rate
\* limit error, the operation is never invoked, nothing is deducted or counted and
\* nothing of the call remains scheduled.
C17_TimeoutFailsWithoutCharge ==
    [][/\ \A c \in Waiting :
             (Wake(c) /\ c.kind = "withRateLimit" /\ now - c.startTime >= c.maxWaitMs) =>
                 /\ done'.call = c
                 /\ done'.result = RateLimitError
                 /\ calls' = Without(c)
       /\ (Returns("withRateLimit") /\ done'.result = RateLimitError) =>
             /\ done'.operation = "none"
             /\ done'.call.pc = "wait"
             /\ now - done'.call.startTime >= done'.call.maxWaitMs
             /\ buckets' = buckets
             /\ stats' = stats
             /\ \A c2 \in BagToSet(calls') : c2 \in BagToSet(calls)]_vars

\* a withRateLimit has failed on the rate limit after sleeping
C17_Witness ==
    /\ done.call.kind = "withRateLimit"
    /\ done.result = RateLimitError
    /\ done.at > done.call.startTime
    /\ done.call.model \notin InheritedNames
(***************************************************************************)
(* Properties of the result cache, under SpecCache.                        *)
(***************************************************************************)
Live(key) == Has(cache, key) /\ ~Expired(Entry(cache, key), now)

\* set(key, value) leaves the value stored under the key
SetStores(key, value) ==
    /\ Has(cache', key)
    /\ Entry(cache', key).value = value

\* the step changed nothing but the recency bookkeeping of the entry of key
OnlyRecency(key) ==
    /\ Len(cache') = Len(cache)
    /\ cache'[Len(cache')] = [Entry(cache, key) EXCEPT !.accessCount = @ + 1,
                                                       !.lastAccessedAt = now]
    /\ Removed(cache', key) = Removed(cache, key)
    /\ cacheStats' = [cacheStats EXCEPT !.hits = @ + 1]
    /\ persistenceAdapter' = persistenceAdapter

\* the value held under a key changes only in a set of the key
ValueKept(key) ==
    (Has(cache, key) /\ Has(cache', key)
        /\ Entry(cache', key).value # Entry(cache, key).value)
    => \E v \in CacheValues, t \in Ttls : Set(key, v, t)

\* C20: after set(k, v) the cache holds v under k; a get(k) of an entry
\* that is present and has not expired returns the value of the entry, which
\* no step but a set of k changes, so that repeated gets return the same v;
\* and a get hit changes only the position of the entry (it becomes the most
\* recently used), its accessCount, its lastAccessedAt and the hit counter.
C20_SetThenGetsReturnValue ==
    [][ /\ \A k \in CacheKeys, v \in CacheValues, t \in Ttls :
              Set(k, v, t) => SetStores(k, v)
        /\ \A k \in CacheKeys :
              (Get(k) /\ Live(k)) =>
                  /\ got'.result = Entry(cache, k).value
                  /\ got'.result = written[k]
                  /\ OnlyRecency(k)
        /\ \A k \in CacheKeys : ValueKept(k) ]_vars

\* the second get of a key returned the value that was set
C20_Witness ==
    /\ got.op = "get"
    /\ got.result # Null
    /\ Has(cache, got.key)
    /\ Entry(cache, got.key).accessCount >= 2
    /\ got.result = written[got.key]


\* the Map keeps the entries in the order of their last set or get hit
OrderedByRecency ==
    \A i, j \in 1..Len(cache) :
        i < j => cache[i].lastAccessedAt <= cache[j].lastAccessedAt

\* set(key, ...) puts a key that is not stored into a cache that holds maxSize entries
InsertsIntoFull(key) ==
    /\ ~Has(cache, key)
    /\ Len(cache) >= maxSize
    /\ \E v \in CacheValues, t \in Ttls : Set(key, v, t)

\* the step removed the least recently used entry, and only that one
EvictedLeastRecent(key) ==
    /\ Len(cache') = Len(cache)
    /\ Removed(cache', key) = Tail(cache)
    /\ cacheStats'.evictions = cacheStats.evictions + 1

\* C21: a set that inserts a new key into a cache holding maxSize entries evicts
\* exactly one entry, the one at the least recently used end of the Map (the
\* one whose last set or get hit is the oldest); a get hit moves its entry away
\* from that end and a has leaves the order alone.
C21_EvictsExactlyLeastRecent ==
    [][ /\ \A k \in CacheKeys : InsertsIntoFull(k) => EvictedLeastRecent(k)
        /\ \A k \in CacheKeys : HasKey(k) /\ Live(k) => cache' = cache ]_vars

\* the same, when the least recently used key is not the empty string
EvictsLeastRecentNamedKey ==
    [][ \A k \in CacheKeys :
            (InsertsIntoFull(k) /\ Head(cache).key # "") => EvictedLeastRecent(k) ]_vars

\* a get hit of the oldest entry just before the insert protected it, a has did not
ProtectedByGet ==
    /\ Len(cache) = maxSize
    /\ cacheStats.evictions = 1
    /\ \E i \in 1..Len(cache) : cache[i].accessCount = 1 /\ cache[i].createdAt = 0
    /\ got.op = "get"

\* C22: the cache never holds more than maxSize entries.
C22_SizeWithinMaxSize == Len(cache) <= maxSize

\* the same while the empty string has never been a key
SizeWithinMaxSizeOfNamedKeys == written[""] = Null => Len(cache) <= maxSize

\* C23: a get or a has of a key whose entry has expiresAt before the current time
\* answers null, respectively false, and removes the entry, whether or not
\* cleanup has removed it before.
C23_ExpiredReadAsAbsent ==
    [][ \A k \in CacheKeys :
            (Has(cache, k) /\ now > Entry(cache, k).expiresAt) =>
                /\ Get(k) => (got'.result = Null /\ ~Has(cache', k))
                /\ HasKey(k) => (got'.found = FALSE /\ ~Has(cache', k)) ]_vars

\* an expired entry that cleanup had not removed was read as absent
C23_Witness ==
    /\ got.op \in {"get", "has"}
    /\ written[got.key] # Null
    /\ ~Has(cache, got.key)
    /\ IF got.op = "get" THEN got.result = Null ELSE got.found = FALSE
    /\ cacheStats.evictions = 0
    /\ now > 0
    /\ ops = 2


(***************************************************************************)
(* Properties of the cache with a persistence adapter, under SpecPersist.  *)
(***************************************************************************)
\* the get(key) of this step went on to ask the adapter
AsksAdapter(key) == \E r \in reads' \ reads : r.key = key

\* adapter.get(key) answered with a value: get returns it and the Map holds it,
\* unexpired, so that the next get(key) is a hit
Backfills(key) ==
    ((\E r \in reads : r.key = key /\ ReadAnswered(r)) /\ Persisted(key, now) # Null) =>
        /\ got' = [op |-> "get", key |-> key, result |-> Persisted(key, now)]
        /\ Has(cache', key)
        /\ Entry(cache', key).value = Persisted(key, now)
        /\ ~Expired(Entry(cache', key), now)

\* C24: with a persistence adapter, a get(k) that finds k absent from the Map or
\* finds an expired entry asks adapter.get(k); when the adapter answers with a
\* value, get returns it and stores it in the Map.
C24_MissFallsThroughAndBackfills ==
    [][ \A k \in PersistKeys :
            /\ (Persistent /\ Get(k) /\ ~Live(k)) => AsksAdapter(k)
            /\ Backfills(k) ]_vars

\* the same for the keys that are absent from the Map
AbsentFallsThroughAndBackfills ==
    [][ \A k \in PersistKeys :
            /\ (Persistent /\ Get(k) /\ ~Has(cache, k)) => AsksAdapter(k)
            /\ Backfills(k) ]_vars

\* a get was answered by the adapter and backfilled the Map
BackfilledFromAdapter ==
    /\ got.op = "get"
    /\ got.result = "value2"
    /\ written["key1"] = Null
    /\ Has(cache, "key1") /\ Entry(cache, "key1").value = "value2"


\* the writes of the adapter for a key that have been started and not settled
WritesInFlight(key) == {id \in PendingWrites : writes[id].key = key}

\* every call so far was a set made with the adapter attached, and no call of
\* the adapter has rejected
OnlySets ==
    /\ Persistent
    /\ got.op = "none"
    /\ Len(writes) + Len(chained) = ops
    /\ ~failed

\* no write is pending or waiting for one
AllWritten == PendingWrites = {} /\ chained = <<>>

SerializedLatestWins ==
    \A k \in PersistKeys :
        /\ Cardinality(WritesInFlight(k)) <= 1
        /\ (OnlySets /\ AllWritten /\ written[k] # Null)
               => adapterStore[k].value = written[k]

\* C25: the adapter writes of one key never overlap, and after sets of the key
\* alone, once every write has finished, the adapter holds the value of the
\* last set.
C25_WritesSerializedLatestWins == SerializedLatestWins

\* the same as long as no more than two sets have been called
SerializedUpToTwoSets == ops <= 2 => SerializedLatestWins

\* the adapter ended with a value that is not the one of the last set
StaleValuePersisted ==
    \E k \in PersistKeys :
        /\ OnlySets /\ AllWritten /\ written[k] # Null
        /\ adapterStore[k].value # written[k]


\* no call of the adapter is waiting to start or to settle
AdapterIdle == PendingWrites = {} /\ chained = <<>> /\ removals = {}

\* a get(key) returns in this step; if it has awaited the adapter, it was called
\* after the delete or clear
GetReturns(key) ==
    \/ GetHit(key)
    \/ GetMiss(key)
    \/ \E r \in reads : r.key = key /\ r.since /\ ReadAnswered(r)

\* C26: a get(k) that returns after a delete(k) or a clear(), with no set(k)
\* since and no adapter call outstanding, returns null.
C26_InvalidatedReadsNull ==
    [][ \A k \in PersistKeys :
            (k \in invalidated /\ AdapterIdle /\ GetReturns(k))
                => got'.result = Null ]_vars

\* the same for the cache that has no persistence adapter, under SpecCache
InvalidatedReadsNullInMemory ==
    [][ \A k \in CacheKeys :
            (k \in invalidated /\ (GetHit(k) \/ GetMiss(k)))
                => got'.result = Null ]_vars

\* a get after a delete answered null
DeletedReadNull ==
    /\ got.op = "get" /\ got.result = Null
    /\ got.key \in invalidated
    /\ written[got.key] # Null


\* no get has rejected
NoGetRejected == got.op = "get" => got.result # "rejected"

\* C27: whatever call of the adapter rejects, no cache call rejects and no
\* rejection is left without a handler.
C27_AdapterFailureContained == NoGetRejected /\ ~unhandled

\* a rejection of adapter.delete or adapter.clear changes nothing in the cache
RejectedRemovalContained ==
    [][ \A r \in removals :
            RemovalSettles(r, FALSE) =>
                UNCHANGED <<cache, cacheStats, got, unhandled, writes, chained>> ]_vars

\* a set whose write waited for a write that rejected is never forwarded
DroppedAfterRejection ==
    \E k \in PersistKeys :
        /\ failed /\ AdapterIdle
        /\ Len(writes) < ops
        /\ got.op = "none"
        /\ Has(cache, k) /\ Entry(cache, k).value = written[k]
        /\ adapterStore[k].value # written[k]
        /\ \A id \in 1..Len(writes) : id > 1 => writes[id].state = "fulfilled"


(***************************************************************************)
(* Properties of the cache keys, under SpecKey.                            *)
(***************************************************************************)
\* C28: two calls of createKey with different lists of parts return different
\* keys.
C28_DifferentPartsDifferentKeys ==
    \A a, b \in made : a.parts # b.parts => a.key # b.key

\* a list of strings that contain no colon
Plain(parts) ==
    \A i \in 1..Len(parts) :
        /\ parts[i].type = "string"
        /\ \A n \in 1..Len(parts[i].text) : parts[i].text[n] # ":"

\* the same for lists of strings without a colon
DifferentPlainPartsDifferentKeys ==
    \A a, b \in made :
        (Plain(a.parts) /\ Plain(b.parts) /\ a.parts # b.parts) => a.key # b.key

\* equal lists of parts have equal keys
EqualPartsEqualKeys ==
    \A a, b \in made : a.parts = b.parts => a.key = b.key

\* the same text split differently across two parts has one key
SplitShared ==
    \E a, b \in made :
        /\ a.parts = <<Str(<<"a", ":">>), Str(<<"a">>)>>
        /\ b.parts = <<Str(<<"a">>), Str(<<":", "a">>)>>
        /\ a.key = b.key


(***************************************************************************)
(* Properties of transcodeToMonoWav, under SpecTranscode.                  *)
(***************************************************************************)
ValidType(mimeType) == startsWith(mimeType, AudioPrefix) \/ startsWith(mimeType, VideoPrefix)

RejectedWith(error) == transcode.settled = "rejected" /\ transcode.error = error

\* C29: a call with an input buffer above the 25MB ceiling fails with the
\* 'exceeds maximum size' error of the input, a call with an input within the
\* ceiling and a mime type that starts with neither 'audio/' nor 'video/' fails
\* with the invalid-type error, and in both cases no subprocess is spawned.
C29_ValidatesBeforeSpawn ==
    transcode.phase = "called" =>
        /\ TooLarge(transcode.inputBytes, MAX_MEDIA_BYTES) =>
               (RejectedWith(SizeError("Input media")) /\ ~transcode.spawned)
        /\ (~TooLarge(transcode.inputBytes, MAX_MEDIA_BYTES) /\ ~ValidType(transcode.mimeType)) =>
               (RejectedWith(TextError("Invalid file type.")) /\ ~transcode.spawned)
        /\ transcode.spawned =>
               (~TooLarge(transcode.inputBytes, MAX_MEDIA_BYTES) /\ ValidType(transcode.mimeType))

\* a call was refused for its size and no subprocess was spawned
C29_Witness ==
    /\ transcode.phase = "called"
    /\ transcode.inputBytes = MAX_MEDIA_BYTES + 1
    /\ RejectedWith(SizeError("Input media"))
    /\ ~transcode.spawned

\* C30: a call never resolves with a buffer above sizeLimit, be it the output of
\* the subprocess or the input returned by the fallback; and once the output
\* received is above sizeLimit the subprocess has been killed and the call is
\* rejected with the size error of the output, whatever events follow.
C30_NeverResolvesAboveLimit ==
    /\ transcode.settled = "resolved" => ~TooLarge(transcode.audioBytes, transcode.sizeLimit)
    /\ TooLarge(transcode.stdoutSize, transcode.sizeLimit) =>
           (transcode.killed /\ RejectedWith(SizeError("Downsampled audio")))

\* the subprocess closed after its output had gone above the limit
C30_Witness ==
    /\ transcode.closed
    /\ TooLarge(transcode.stdoutSize, transcode.sizeLimit)
    /\ RejectedWith(SizeError("Downsampled audio"))

\* the fallback returned the input of an audio call
FellBackToInput ==
    /\ transcode.settled = "resolved"
    /\ transcode.fromInput
    /\ transcode.audioBytes = transcode.inputBytes


\* the promise is still pending
Unsettled == transcode.settled = "pending"

\* the call returned the caller's buffer under the caller's mime type
ReturnsInput(t) ==
    /\ t.settled = "resolved"
    /\ t.fromInput
    /\ t.audioBytes = t.inputBytes
    /\ t.audioMimeType = t.mimeType

\* the call returned the concatenated output as audio/wav
ReturnsOutput(t) ==
    /\ t.settled = "resolved"
    /\ ~t.fromInput
    /\ t.audioBytes = t.stdoutSize
    /\ t.audioMimeType = AudioWav

\* what each event does to a pending promise, as the contract states it
OutcomeOfEvents ==
    /\ \A code \in SpawnErrors :
          Unsettled /\ SpawnError(code) =>
              IF code = "ENOENT" /\ startsWith(transcode.mimeType, AudioPrefix)
              THEN ReturnsInput(transcode')
              ELSE transcode'.settled = "rejected"
    /\ Unsettled /\ KillError => transcode'.settled = "rejected"
    /\ \A code \in {0, 1, SignalCode} :
          Unsettled /\ Close(code) =>
              IF code = 0 THEN ReturnsOutput(transcode')
              ELSE /\ transcode'.settled = "rejected"
                   /\ transcode'.error = TextError("stderr")
    /\ ~transcode.fromInput /\ transcode'.fromInput =>
          /\ SpawnError("ENOENT")
          /\ startsWith(transcode.mimeType, AudioPrefix)

\* C31: the call returns the caller's buffer and mime type exactly when the
\* subprocess could not be spawned with ENOENT and the mime type is audio/*;
\* ENOENT with another type, any other error and a non-zero exit code reject,
\* and exit code 0 resolves with the output as audio/wav.
C31_FallsBackExactlyOnMissingAudio == [][OutcomeOfEvents]_vars

\* the same for inputs that are within sizeLimit
WithinLimitFallsBackOnMissingAudio ==
    [][~TooLarge(transcode.inputBytes, transcode.sizeLimit) => OutcomeOfEvents]_vars

\* a call with audio within sizeLimit has returned its input
ReturnedInput == ReturnsInput(transcode)

\* C35: for every order of the events of the subprocess the promise settles
\* exactly once: no handler fails while the promise is pending, a closed
\* subprocess leaves no promise pending, and a settlement is never replaced.
C35_SettlesExactlyOnce ==
    [][/\ Unsettled => ~(transcode'.uncaught /\ ~transcode.uncaught)
       /\ Unsettled /\ transcode'.closed => transcode'.settled # "pending"
       /\ transcode.settled \in {"resolved", "rejected"} =>
             /\ transcode'.settled = transcode.settled
             /\ transcode'.audioBytes = transcode.audioBytes
             /\ transcode'.audioMimeType = transcode.audioMimeType
             /\ transcode'.error = transcode.error]_vars

\* the first settlement is never replaced by a later event
FirstSettlementKept ==
    [][transcode.settled \in {"resolved", "rejected"} =>
          /\ transcode'.settled = transcode.settled
          /\ transcode'.audioBytes = transcode.audioBytes
          /\ transcode'.audioMimeType = transcode.audioMimeType
          /\ transcode'.error = transcode.error]_vars

\* a later event arrived at a settled promise
LaterEventAfterSettlement ==
    /\ transcode.settled = "rejected"
    /\ transcode.error = SizeError("Downsampled audio")
    /\ transcode.closed
\* a get hit returns an entry that has not expired and leaves its expiry alone
HitKeepsExpiry ==
    \A k \in CacheKeys :
        GetHit(k) => /\ now <= Entry(cache, k).expiresAt
                     /\ Entry(cache', k).expiresAt = Entry(cache, k).expiresAt

\* a backfill gives the entry no later expiry than the row it was read from
BackfillKeepsExpiry ==
    \A r \in reads :
        ReadAnswered(r) /\ Persisted(r.key, now) # Null =>
            Entry(cache', r.key).expiresAt <= adapterStore[r.key].expiresAt

\* C39: the cache never serves a value past its time to live: a get returns
\* only entries that have not expired, a hit does not extend the expiry of
\* the entry, and neither does a backfill from the persistence adapter.
C39_NeverServesPastTtl == [][HitKeepsExpiry /\ BackfillKeepsExpiry]_vars

\* the same without the backfill
HitNeverExtendsExpiry == [][HitKeepsExpiry]_vars

\* a hit on an entry with time on its clock
HitBeforeExpiry ==
    /\ got.op = "get"
    /\ got.result \in CacheValues
    /\ Has(cache, got.key)
    /\ Entry(cache, got.key).accessCount > 0
    /\ now = Entry(cache, got.key).expiresAt
\* the call was made with a URL of another scheme than http and https
OtherScheme ==
    /\ download.phase # "idle"
    /\ ParsesAsUrl(download.mediaUrl)
    /\ protocol(download.mediaUrl) \notin AllowedProtocols

\* C32: a URL whose scheme is not http or https is rejected before any
\* request; the download fails with the size error at the first chunk that
\* takes the byte count above sizeLimit, reads nothing after it, and never
\* returns a buffer above sizeLimit.
C32_SchemeAndCeilingEnforced ==
    /\ OtherScheme =>
          /\ ~download.requested
          /\ download.settled = "rejected"
          /\ download.error = TextError("Only http/https media URLs are allowed")
    /\ download.settled = "resolved" =>
          /\ download.bufferBytes <= download.sizeLimit
          /\ download.bufferBytes = download.downloaded
    /\ TooLarge(download.downloaded, download.sizeLimit) =>
          /\ download.settled = "rejected"
          /\ download.error = SizeError("Input media")
          /\ download.phase # "reading"
          /\ ~TooLarge(download.kept, download.sizeLimit)
    /\ download.kept <= download.downloaded

\* the second chunk took the download above the limit
C32_Witness ==
    /\ download.readCalls = 2
    /\ download.kept = ChunkBytes
    /\ download.downloaded = 2 * ChunkBytes
    /\ download.sizeLimit = SmallLimit
    /\ download.settled = "rejected"

\* nothing is read after the call has settled
NoReadAfterSettlement ==
    [][download.settled \in {"resolved", "rejected"} => download' = download]_vars

\* a file URL was turned away
FileUrlRejected ==
    /\ download.mediaUrl = FileUrl
    /\ download.settled = "rejected"
    /\ ~download.requested
\* the operations in flight on a key, and the tokens they were admitted for
RECURSIVE InFlightOn(_, _)
InFlightOn(S, model) ==
    IF S = {} THEN [requests |-> 0, tokens |-> 0]
    ELSE LET c == CHOOSE x \in S : TRUE
             rest == InFlightOn(S \ {c}, model)
             n == IF c.model = model THEN CopiesIn(c, calls) ELSE 0
         IN  [requests |-> rest.requests + n,
              tokens |-> rest.tokens + n * c.estimatedTokens]

\* the bucket of the key can pay for every operation in flight on it
PaysForInFlight(model) ==
    LET bucket == Refilled(buckets, model, now)[model]
        admitted == InFlightOn(Operating, model)
    IN  /\ AtLeast(bucket.requestTokens, Requests(admitted.requests))
        /\ AtLeast(bucket.tokenTokens, Tokens(admitted.tokens))

\* C34: concurrent callers of withRateLimit on one key are never admitted
\* on more than the bucket can pay for: the operations in flight need no
\* more requests and tokens than the bucket of their key holds.
C34_AdmitsOnlyWhatBucketPays == PaysForInFlight(ProModel)
\* the row of the job is in status processing
Processing(j) == j \in Created /\ jobs[j].status = "processing"

\* C36: a job does not stay in status processing forever: whatever happens
\* to the execution that claimed it, the row eventually leaves processing
\* (back to pending, or failed, or complete).
C36_ProcessingEnds ==
    \A j \in JobIds :
        Processing(j) ~> ~Processing(j)
\* the execution wrote the status complete to the row of the job
MarkedComplete == execution.markedComplete

\* the document was missing or the write of the result failed
NoResultWritten ==
    \/ execution.document = "missing"
    \/ execution.err = UpdateFailed

\* the execution is on the failure path or has left it through onError
OnFailurePath ==
    \/ execution.pc \in {"failjob", "faildoc"}
    \/ execution.pc = "done" /\ execution.errorCalls > 0

\* C37 as stated: the status complete is written only after the write of the
\* result to the document succeeded; with a missing document, a document
\* without storage path or a failed document write the job takes the failure
\* path and is never marked complete by the execution.
C37_CompleteOnlyAfterDocumentWrite ==
    /\ MarkedComplete => execution.documentWritten
    /\ NoResultWritten \/ execution.document = "without storage_path" =>
          ~MarkedComplete /\ OnFailurePath

\* C37 amended: the storage path is required of extract and transcribe jobs
\* only; an analyze job works on the text of the document.
C37_CompleteOnlyAfterDocumentWriteAmended ==
    /\ MarkedComplete => execution.documentWritten
    /\ \/ NoResultWritten
       \/ execution.document = "without storage_path" /\ NeedsStoragePath(execution.job_type)
       => ~MarkedComplete /\ OnFailurePath

\* a job was marked complete after its document had been written
C37_Witness ==
    /\ execution.documentWritten
    /\ MarkedComplete
    /\ execution.row = "complete"
    /\ execution.document = "with storage_path"

\* an analyze job on a document without storage path was completed
AnalyzedWithoutStoragePath ==
    /\ execution.job_type = "analyze"
    /\ execution.document = "without storage_path"
    /\ MarkedComplete

\* C38: an execution invokes exactly one of onComplete and onError, exactly
\* once, and does not move a job it marked complete to pending or failed,
\* also when a callback throws.
C38_OneCallbackOnce ==
    /\ execution.pc = "done" => execution.completeCalls + execution.errorCalls = 1
    /\ execution.completeCalls + execution.errorCalls <= 1
    /\ MarkedComplete => execution.row = "complete"

\* the same for callbacks that return
OneCallbackOnceUnlessThrown ==
    ~execution.callbackThrew =>
        /\ execution.pc = "done" => execution.completeCalls + execution.errorCalls = 1
        /\ execution.completeCalls + execution.errorCalls <= 1
        /\ MarkedComplete => execution.row = "complete"

\* an execution ended with onError alone
EndedWithOnError ==
    /\ execution.pc = "done"
    /\ execution.errorCalls = 1
    /\ execution.completeCalls = 0
\* the cache holds a value under the key that has not expired
Fresh(key) == Has(cache, key) /\ ~Expired(Entry(cache, key), now)

\* a request is made in the step
Requested == inference'.requests = inference.requests + 1

\* a request that finds a fresh value returns it within the call: the client is
\* not invoked and the limiter is left alone; another request goes on to the
\* generator
HitServedFromCache ==
    Requested =>
        IF Fresh(inference'.key)
        THEN /\ inference'.pc = "done"
             /\ inference'.settled = "fulfilled"
             /\ inference'.result = Entry(cache, inference'.key).value
             /\ inference'.invoked = <<>>
             /\ UNCHANGED <<buckets, stats, calls>>
        ELSE /\ inference'.pc = "start"
             /\ inference'.invoked = <<>>

\* the client is invoked in a step in which the bucket of the chosen model is
\* found sufficient for the estimate
InvokedWhenAdmitted ==
    inference'.invoked # inference.invoked /\ ~Requested =>
        /\ Sufficient(Refilled(buckets, inference.model, now)[inference.model],
                      inference.estimate)
        /\ inference'.invoked = Append(inference.invoked, inference.model)
        /\ ~inference.fromCache

\* a result of the client is in the cache under the key of the request when
\* the request returns it
StoredWhenReturned ==
    inference.pc = "operation" /\ inference'.settled = "fulfilled" =>
        /\ Has(cache', inference.key)
        /\ Entry(cache', inference.key).value = inference'.result
        /\ Entry(cache', inference.key).expiresAt = now + CACHE_TTL_MS

\* C33: a request whose key has an unexpired value in the cache returns that
\* value without invoking the client and without consuming budget; on a miss
\* the client is invoked only after waitForTokens has found the budget of the
\* chosen model, and the result is cached under the key before it is returned.
C33_CacheBeforeLimiterBeforeClient ==
    [][HitServedFromCache /\ InvokedWhenAdmitted /\ StoredWhenReturned]_vars

\* the second request was served from what the first one cached
C33_Witness ==
    /\ inference.requests = 2
    /\ inference.pc = "done"
    /\ inference.fromCache
    /\ inference.result = "json"
    /\ TotalRequests(stats) = 1

\* a request waited for its budget before the client was invoked
InvokedAfterWaiting ==
    /\ inference.pc = "operation"
    /\ inference.requests = 2
    /\ now > 0
    /\ now < StepMs

\* at most the primary and then the fallback model are invoked, the fallback
\* only after a failure
AtMostPrimaryThenFallback ==
    /\ Len(inference.invoked) <= 2
    /\ inference.failures <= 2
    /\ \A i \in 1..Len(inference.invoked) :
          inference.invoked[i] \in {PrimaryModel(inference.kind), FallbackModel}
    /\ Len(inference.invoked) = 2 =>
          inference.invoked = <<PrimaryModel(inference.kind), FallbackModel>>
    /\ inference.model = FallbackModel /\ inference.pc # "done" => inference.failures = 1
    /\ (\E i \in 1..Len(inference.invoked) : inference.invoked[i] = FallbackModel) =>
          inference.failures >= 1

\* the attempt that ends in the step is charged to the bucket of its model, and
\* to no other
ChargedToOwnBucket ==
    inference.pc = "operation" /\ inference'.pc # "operation" =>
        LET model == inference.model
        IN  /\ stats'[model].requests = stats[model].requests + 1
            /\ stats'[model].tokens = stats[model].tokens + inference.estimate
            /\ buckets'[model] = Consumed(buckets, model, inference.estimate, now)[model]
            /\ \A other \in DOMAIN buckets \ {model} : buckets'[other] = buckets[other]
            /\ \A other \in DOMAIN stats \ {model} : stats'[other] = stats[other]

\* a request that fails throws its error and leaves the cache as it is, without
\* an entry for the key, and the next request for the key goes to the generator
FailureNotCached ==
    /\ inference.pc # "done" /\ inference'.settled = "rejected" =>
          /\ inference'.error # "none"
          /\ cache' = cache
          /\ ~Has(cache', inference.key)
    /\ Requested /\ inference.settled = "rejected" /\ inference'.key = inference.key =>
          inference'.pc = "start"

\* C40: a request invokes at most the primary model and then the fallback
\* model, the fallback only after the primary attempt failed; each attempt is
\* charged to the bucket of its own model; when both fail the error reaches
\* the caller, nothing is cached, and a later request for the key goes to the
\* client again.
C40_TwoAttemptsThenError ==
    [][AtMostPrimaryThenFallback /\ ChargedToOwnBucket /\ FailureNotCached]_vars

\* both models were invoked and both failed
C40_Witness ==
    /\ inference.pc = "done"
    /\ inference.settled = "rejected"
    /\ inference.error = "Operation failed"
    /\ inference.invoked = <<ProModel, FallbackModel>>
    /\ inference.failures = 2
    /\ ~Has(cache, inference.key)

\* the primary model was turned away by the limiter and the fallback answered
FallbackAfterRateLimit ==
    /\ inference.pc = "done"
    /\ inference.settled = "fulfilled"
    /\ inference.invoked = <<FallbackModel>>
    /\ inference.failures = 1

\* a request after a failed one for the same key invoked the client again
InvokedAgainAfterFailure ==
    /\ inference.requests = 2
    /\ inference.pc = "operation"
    /\ TotalRequests(stats) = 2
    /\ inference.kind = "transcribe"
====
